---- MODULE Spec2Model ----
(***************************************************************************)
(* The asset-aware event state machine of rgb-lightning-node (src/ldk.rs): *)
(* the ledger store (payment and swap maps, written through on every       *)
(* mutation), the HTLCIntercepted swap validator, the payment and channel  *)
(* events of handle_ldk_events, and RgbOutputSpender's cached colored      *)
(* spend.                                                                  *)
(*                                                                         *)
(* Ledger operations and event handlers are operators on a record L that   *)
(* holds the node's state while one call runs; an action applies the whole *)
(* handler to the current state and commits the result.  A Rust panic      *)
(* (unwrap on None, panic!) sets L.panicked: every later step of the same  *)
(* call is skipped.  A panic raised while a std::sync::Mutex guard is held *)
(* poisons that mutex, and lock().unwrap() on a poisoned mutex panics.     *)
(***************************************************************************)
EXTENDS Integers, Sequences, FiniteSets, TLC

(***************************************************************************)
(* Bounds of the model.                                                    *)
(***************************************************************************)
\* millisatoshi amounts, asset amounts and swap quantities range over 0..MaxAmt
MaxAmt == 1
\* get_current_timestamp() ranges over 1..MaxTime
MaxTime == 2

Hashes == {"h1", "h2"}            \* PaymentHash values
PaymentIds == {"h1", "h2"}        \* PaymentId values (PaymentId(payment_hash.0) for invoices)
Assets == {"rgb1", "rgb2"}        \* ContractId values
InterceptIds == {"i1", "i2"}      \* InterceptId values
Scids == {"scid1"}                \* short channel ids of the node's channels
ChannelIds == {"c1", "c2"}        \* final ChannelId values
Preimages == {"p1"}               \* PaymentPreimage values
Secrets == {"s1"}                 \* PaymentSecret values

Amounts == 0 .. MaxAmt
Times == 1 .. MaxTime

(***************************************************************************)
(* Option<T>: None is the empty tuple, Some(x) the one-element tuple.      *)
(***************************************************************************)
None == << >>
Some(x) == << x >>
Option(S) == {None} \cup {Some(x) : x \in S}

\* HashMap::insert: the value of an existing key is replaced
MapInsert(m, k, v) == [x \in (DOMAIN m) \cup {k} |-> IF x = k THEN v ELSE m[x]]
\* HashMap::remove
MapRemove(m, k) == [x \in (DOMAIN m) \ {k} |-> m[x]]
EmptyMap == << >>

\* u64::checked_sub: None on underflow
checked_sub(a, b) == IF a >= b THEN Some(a - b) ELSE None
\* u64::saturating_sub: zero on underflow
saturating_sub(a, b) == IF a >= b THEN a - b ELSE 0

HTLCStatuses == {"Pending", "Succeeded", "Failed"}
SwapStatuses == {"Waiting", "Pending", "Succeeded", "Failed", "Expired"}
SwapTerminal == {"Succeeded", "Failed", "Expired"}
SwapKinds == {"FromBtc", "ToBtc", "AssetForAsset"}
LockNames == {"inbound_payments", "outbound_payments", "maker_swaps",
              "taker_swaps", "channel_ids_map", "txes"}
\* the tasks that call the ledger operations at the same time
Threads == {"t1", "t2"}
\* a caller that is in no ledger operation
Idle == [stage |-> "idle"]
\* the background loops as start_ldk spawns them
LoopsStarted == [acceptor |-> "accepting", chain_poller |-> "checking",
                 reconnect |-> "waiting"]
\* stop_ldk has not been called
NotStopping == [pc |-> "idle", elapsed |-> 0]

VARIABLES
    inbound_payments,   \* InboundPaymentInfoStorage.payments : PaymentHash -> PaymentInfo
    outbound_payments,  \* OutboundPaymentInfoStorage.payments : PaymentId -> PaymentInfo
    maker_swaps,        \* SwapMap.swaps of the maker : PaymentHash -> SwapData
    taker_swaps,        \* SwapMap.swaps of the taker : PaymentHash -> SwapData
    channel_ids_map,    \* ChannelIdsMap.channel_ids : temporary id -> final id
    fs_store,           \* the persisted blob of each map (FilesystemStore)
    poisoned,           \* the mutexes poisoned by a panic raised under their guard
    panicked,           \* the event-handling task has panicked
    commands,           \* the commands the last handled event issued to the channel manager
    event,              \* the HTLCIntercepted event the last step handled, else NoEvent
    now,                \* the clock read by get_current_timestamp()
    txes,               \* RgbOutputSpender.txes : descriptors hash -> transaction
    receive_count,      \* the witness_receive requests the asset wallet has served
    posted,             \* the consignments delivered to the proxy, in order
    signed,             \* the transactions keys_manager has signed for the spender
    spend,              \* the last call of spend_spendable_outputs and its outcome
    rgb_send_lock,      \* UnlockedAppState.rgb_send_lock : the global send-lock
    psbt_files,         \* the channels whose funding has a psbt_<funding_txid> file in the color source
    negotiation,        \* the channel manager's view of each channel's funding negotiation
    recent_payments,    \* the payment ids list_recent_payments gave to the last start_ldk
    balance,            \* the spendable asset balance of each node's wallet
    rgb_channel,        \* the RGB-channel accounting of the colored channel, None when there is none
    rgb_payments,       \* the asset payments made over the colored channel
    guard,              \* the holder of each ledger mutex's guard, "none" when it is free
    call,               \* the ledger operation each caller is in, and how far it got
    stop_processing,    \* LdkBackgroundServices.stop_processing : the shared stop flag
    loops,              \* where each background loop of start_ldk stands
    background_processor, \* the task of process_events_async
    connected,          \* the channels whose counterparty is a connected peer
    tcp_stream,         \* a connection to the peer port waits to be accepted
    shutdown,           \* where the last call of stop_ldk stands, and the seconds it has waited
    effects,            \* what the last funding handler did outside the ledger, in order
    wallet_assets,      \* the contract ids registered in the asset wallet
    consignment_files   \* the channels whose funding has a consignment_<funding_txid> file

ledgerVars == << inbound_payments, outbound_payments, maker_swaps, taker_swaps,
                 channel_ids_map, fs_store, poisoned, panicked, commands >>

spenderVars == << txes, receive_count, posted, signed, spend >>

channelVars == << rgb_send_lock, psbt_files, negotiation >>

\* the parts of the node that the ledger operations and the spender leave alone
assetVars == << balance, rgb_channel, rgb_payments >>

\* the tasks of the node: the callers of the ledger operations
taskVars == << guard, call >>

\* the background services of the node and their shutdown
serviceVars == << stop_processing, loops, background_processor, connected, tcp_stream,
                  shutdown >>

\* the asset wallet and the files of a funding, and the trace of the last funding handler
walletVars == << effects, wallet_assets, consignment_files >>

\* the state outside this node's ledger, spender and channel funding
outerVars == << assetVars, taskVars, serviceVars, walletVars >>

restVars == << channelVars, recent_payments, outerVars >>

NoEvent == [type |-> "NoEvent"]
NoSpend == [type |-> "NoSpend"]

(***************************************************************************)
(* The state a call works on, and its commit.                              *)
(***************************************************************************)
St ==
    [ inbound_payments |-> inbound_payments,
      outbound_payments |-> outbound_payments,
      maker_swaps |-> maker_swaps,
      taker_swaps |-> taker_swaps,
      channel_ids_map |-> channel_ids_map,
      fs_store |-> fs_store,
      poisoned |-> poisoned,
      panicked |-> FALSE,
      commands |-> << >> ]

\* an event handler ran: its panic ends the event-handling task
CommitEvent(L) ==
    /\ inbound_payments' = L.inbound_payments
    /\ outbound_payments' = L.outbound_payments
    /\ maker_swaps' = L.maker_swaps
    /\ taker_swaps' = L.taker_swaps
    /\ channel_ids_map' = L.channel_ids_map
    /\ fs_store' = L.fs_store
    /\ poisoned' = L.poisoned
    /\ panicked' = L.panicked
    /\ commands' = L.commands

\* a ledger operation ran on behalf of another caller (an API request): its
\* panic ends that request only; the event-handling task is not involved
CommitCall(L) ==
    /\ inbound_payments' = L.inbound_payments
    /\ outbound_payments' = L.outbound_payments
    /\ maker_swaps' = L.maker_swaps
    /\ taker_swaps' = L.taker_swaps
    /\ channel_ids_map' = L.channel_ids_map
    /\ fs_store' = L.fs_store
    /\ poisoned' = L.poisoned
    /\ UNCHANGED << panicked, commands >>

\* a panic with no guard held
Panic(L) == [L EXCEPT !.panicked = TRUE]
\* a panic while the guard of `lock` is held: the mutex is poisoned
PanicHolding(L, lock) == [L EXCEPT !.panicked = TRUE, !.poisoned = @ \cup {lock}]

get_current_timestamp == now

(***************************************************************************)
(* Ledger store: swaps.                                                    *)
(***************************************************************************)
save_maker_swaps(L) == [L EXCEPT !.fs_store.maker_swaps = L.maker_swaps]

save_taker_swaps(L) == [L EXCEPT !.fs_store.taker_swaps = L.taker_swaps]

add_maker_swap(L, payment_hash, swap) ==
    IF L.panicked THEN L
    ELSE IF "maker_swaps" \in L.poisoned THEN Panic(L)
    ELSE save_maker_swaps([L EXCEPT !.maker_swaps = MapInsert(@, payment_hash, swap)])

add_taker_swap(L, payment_hash, swap) ==
    IF L.panicked THEN L
    ELSE IF "taker_swaps" \in L.poisoned THEN Panic(L)
    ELSE save_taker_swaps([L EXCEPT !.taker_swaps = MapInsert(@, payment_hash, swap)])

\* the match on the new status: the timestamp it sets
StampSwap(swap, status) ==
    IF status \in SwapTerminal
    THEN [swap EXCEPT !.completed_at = Some(get_current_timestamp)]
    ELSE [swap EXCEPT !.initiated_at = Some(get_current_timestamp)]

\* update_maker_swap_status without the panicking arm: Waiting is stamped
\* like Pending and stored
update_maker_swap_status_waiting_stored(L, payment_hash, status) ==
    IF L.panicked THEN L
    ELSE IF "maker_swaps" \in L.poisoned THEN Panic(L)
    ELSE IF payment_hash \notin DOMAIN L.maker_swaps THEN PanicHolding(L, "maker_swaps")
    ELSE save_maker_swaps(
            [L EXCEPT !.maker_swaps[payment_hash] =
                [StampSwap(@, status) EXCEPT !.status = status]])

update_maker_swap_status(L, payment_hash, status) ==
    IF L.panicked THEN L
    ELSE IF "maker_swaps" \in L.poisoned THEN Panic(L)
    ELSE IF payment_hash \notin DOMAIN L.maker_swaps THEN PanicHolding(L, "maker_swaps")
    ELSE IF status = "Waiting" THEN PanicHolding(L, "maker_swaps")
    ELSE save_maker_swaps(
            [L EXCEPT !.maker_swaps[payment_hash] =
                [StampSwap(@, status) EXCEPT !.status = status]])

update_taker_swap_status(L, payment_hash, status) ==
    IF L.panicked THEN L
    ELSE IF "taker_swaps" \in L.poisoned THEN Panic(L)
    ELSE IF payment_hash \notin DOMAIN L.taker_swaps THEN PanicHolding(L, "taker_swaps")
    ELSE IF status = "Waiting" THEN PanicHolding(L, "taker_swaps")
    ELSE save_taker_swaps(
            [L EXCEPT !.taker_swaps[payment_hash] =
                [StampSwap(@, status) EXCEPT !.status = status]])

\* maker_swaps() clones the map under the lock
is_maker_swap(L, payment_hash) == payment_hash \in DOMAIN L.maker_swaps

is_taker_swap(L, payment_hash) == payment_hash \in DOMAIN L.taker_swaps

(***************************************************************************)
(* Ledger store: payments.                                                 *)
(***************************************************************************)
save_inbound_payments(L) == [L EXCEPT !.fs_store.inbound_payments = L.inbound_payments]

save_outbound_payments(L) == [L EXCEPT !.fs_store.outbound_payments = L.outbound_payments]

add_inbound_payment(L, payment_hash, payment_info) ==
    IF L.panicked THEN L
    ELSE IF "inbound_payments" \in L.poisoned THEN Panic(L)
    ELSE save_inbound_payments(
            [L EXCEPT !.inbound_payments = MapInsert(@, payment_hash, payment_info)])

add_outbound_payment(L, payment_id, payment_info) ==
    IF L.panicked THEN L
    ELSE IF "outbound_payments" \in L.poisoned THEN Panic(L)
    ELSE save_outbound_payments(
            [L EXCEPT !.outbound_payments = MapInsert(@, payment_id, payment_info)])

\* fail_outbound_pending_payments without the look at the listing: every
\* Pending payment becomes Failed
fail_outbound_pending_payments_all(L, recent_payments_payment_ids) ==
    IF L.panicked THEN L
    ELSE IF "outbound_payments" \in L.poisoned THEN Panic(L)
    ELSE save_outbound_payments(
            [L EXCEPT !.outbound_payments =
                [id \in DOMAIN @ |->
                    IF @[id].status = "Pending"
                    THEN [@[id] EXCEPT !.status = "Failed"]
                    ELSE @[id]]])

\* every Pending payment whose id is not in the listing becomes Failed
fail_outbound_pending_payments(L, recent_payments_payment_ids) ==
    IF L.panicked THEN L
    ELSE IF "outbound_payments" \in L.poisoned THEN Panic(L)
    ELSE save_outbound_payments(
            [L EXCEPT !.outbound_payments =
                [id \in DOMAIN @ |->
                    IF @[id].status = "Pending" /\ id \notin recent_payments_payment_ids
                    THEN [@[id] EXCEPT !.status = "Failed"]
                    ELSE @[id]]])

\* Entry::Occupied keeps amt_msat; Entry::Vacant inserts the four fields
upsert_inbound_payment(L, payment_hash, status, preimage, secret, amt_msat) ==
    IF L.panicked THEN L
    ELSE IF "inbound_payments" \in L.poisoned THEN Panic(L)
    ELSE IF payment_hash \in DOMAIN L.inbound_payments
    THEN save_inbound_payments(
            [L EXCEPT !.inbound_payments[payment_hash] =
                [@ EXCEPT !.status = status, !.preimage = preimage, !.secret = secret]])
    ELSE save_inbound_payments(
            [L EXCEPT !.inbound_payments = MapInsert(@, payment_hash,
                [preimage |-> preimage, secret |-> secret,
                 status |-> status, amt_msat |-> amt_msat])])

update_outbound_payment(L, payment_id, status, preimage) ==
    IF L.panicked THEN L
    ELSE IF "outbound_payments" \in L.poisoned THEN Panic(L)
    ELSE IF payment_id \notin DOMAIN L.outbound_payments
    THEN PanicHolding(L, "outbound_payments")
    ELSE save_outbound_payments(
            [L EXCEPT !.outbound_payments[payment_id] =
                [@ EXCEPT !.status = status, !.preimage = preimage]])

update_outbound_payment_status(L, payment_id, status) ==
    IF L.panicked THEN L
    ELSE IF "outbound_payments" \in L.poisoned THEN Panic(L)
    ELSE IF payment_id \notin DOMAIN L.outbound_payments
    THEN PanicHolding(L, "outbound_payments")
    ELSE save_outbound_payments(
            [L EXCEPT !.outbound_payments[payment_id].status = status])

update_inbound_payment_status(L, payment_hash, status) ==
    IF L.panicked THEN L
    ELSE IF "inbound_payments" \in L.poisoned THEN Panic(L)
    ELSE IF payment_hash \notin DOMAIN L.inbound_payments
    THEN PanicHolding(L, "inbound_payments")
    ELSE save_inbound_payments(
            [L EXCEPT !.inbound_payments[payment_hash].status = status])

(***************************************************************************)
(* Ledger store: channel ids.                                              *)
(***************************************************************************)
save_channel_ids_map(L) == [L EXCEPT !.fs_store.channel_ids_map = L.channel_ids_map]

add_channel_id(L, former_temporary_channel_id, channel_id) ==
    IF L.panicked THEN L
    ELSE IF "channel_ids_map" \in L.poisoned THEN Panic(L)
    ELSE save_channel_ids_map(
            [L EXCEPT !.channel_ids_map =
                MapInsert(@, former_temporary_channel_id, channel_id)])

\* what find_map can return: an entry whose final id is channel_id (the
\* iteration order of the HashMap decides which), None when there is none
FindTemporary(L, channel_id) ==
    LET found == {t \in DOMAIN L.channel_ids_map : L.channel_ids_map[t] = channel_id}
    IN  IF found = {} THEN {None} ELSE {Some(t) : t \in found}

\* delete_channel_id that removes the entry in memory and does not write the map
delete_channel_id_unsaved(L, channel_id, temporary) ==
    IF L.panicked THEN L
    ELSE IF "channel_ids_map" \in L.poisoned THEN Panic(L)
    ELSE IF temporary = None THEN L
    ELSE [L EXCEPT !.channel_ids_map = MapRemove(@, temporary[1])]

\* `temporary` is the result of find_map; the map is saved only on removal
delete_channel_id(L, channel_id, temporary) ==
    IF L.panicked THEN L
    ELSE IF "channel_ids_map" \in L.poisoned THEN Panic(L)
    ELSE IF temporary = None THEN L
    ELSE save_channel_ids_map(
            [L EXCEPT !.channel_ids_map = MapRemove(@, temporary[1])])

(***************************************************************************)
(* Swap records.                                                           *)
(***************************************************************************)
SwapInfos ==
    [ from_asset : Option(Assets), to_asset : Option(Assets),
      qty_from : Amounts, qty_to : Amounts, kind : SwapKinds ]

\* a swap as it is whitelisted: Waiting, no timestamp
NewSwap(swap_info) ==
    [ swap_info |-> swap_info, status |-> "Waiting",
      initiated_at |-> None, completed_at |-> None ]

is_from_btc(swap_info) == swap_info.kind = "FromBtc"

is_to_btc(swap_info) == swap_info.kind = "ToBtc"

(***************************************************************************)
(* Commands to the channel manager.  The log records what the handler      *)
(* issued, in order; the engine's reply is outside the model.              *)
(***************************************************************************)
fail_intercepted_htlc(L, intercept_id) ==
    IF L.panicked THEN L
    ELSE [L EXCEPT !.commands =
            Append(@, [cmd |-> "fail", intercept_id |-> intercept_id])]

forward_intercepted_htlc(L, intercept_id, next_hop_scid, amt_to_forward_msat, amt_to_forward_rgb) ==
    IF L.panicked THEN L
    ELSE [L EXCEPT !.commands =
            Append(@, [cmd |-> "forward", intercept_id |-> intercept_id,
                       next_hop_scid |-> next_hop_scid,
                       amt_to_forward_msat |-> amt_to_forward_msat,
                       amt_to_forward_rgb |-> amt_to_forward_rgb])]

(***************************************************************************)
(* Event::HTLCIntercepted.  The event record carries the fields of the     *)
(* event and the result of get_rgb_info for the channel of each leg        *)
(* (inbound_rgb_info, outbound_rgb_info: the contract id, None when the    *)
(* channel has no allocation).                                             *)
(***************************************************************************)
HTLCInterceptedEvents ==
    [ type : {"HTLCIntercepted"},
      is_swap : BOOLEAN,
      payment_hash : Hashes,
      intercept_id : InterceptIds,
      inbound_amount_msat : Amounts,
      expected_outbound_amount_msat : Amounts,
      inbound_rgb_amount : Option(Amounts),
      expected_outbound_rgb_amount : Option(Amounts),
      requested_next_hop_scid : Scids,
      inbound_rgb_info : Option(Assets),
      outbound_rgb_info : Option(Assets) ]

\* FromBtcFail with a saturating subtraction: an underflow counts as a difference of 0
FromBtcFail_saturating(ev, swap_info) ==
    LET net_msat_diff ==
            saturating_sub(ev.expected_outbound_amount_msat, ev.inbound_amount_msat)
    IN  \/ ev.inbound_rgb_amount # Some(swap_info.qty_to)
        \/ ev.inbound_rgb_info # swap_info.to_asset
        \/ net_msat_diff # swap_info.qty_from

\* the is_from_btc branch: TRUE when the HTLC does not match the swap
FromBtcFail(ev, swap_info) ==
    LET net_msat_diff ==
            checked_sub(ev.expected_outbound_amount_msat, ev.inbound_amount_msat)
    IN  \/ ev.inbound_rgb_amount # Some(swap_info.qty_to)
        \/ ev.inbound_rgb_info # swap_info.to_asset
        \/ net_msat_diff # Some(swap_info.qty_from)

\* ToBtcFail with a checked subtraction: an underflow is a mismatch
ToBtcFail_checked(ev, swap_info) ==
    LET net_msat_diff ==
            checked_sub(ev.inbound_amount_msat, ev.expected_outbound_amount_msat)
    IN  \/ ev.expected_outbound_rgb_amount # Some(swap_info.qty_from)
        \/ ev.outbound_rgb_info # swap_info.from_asset
        \/ net_msat_diff # Some(swap_info.qty_to)

\* the is_to_btc branch
ToBtcFail(ev, swap_info) ==
    LET net_msat_diff ==
            saturating_sub(ev.inbound_amount_msat, ev.expected_outbound_amount_msat)
    IN  \/ ev.expected_outbound_rgb_amount # Some(swap_info.qty_from)
        \/ ev.outbound_rgb_info # swap_info.from_asset
        \/ net_msat_diff # swap_info.qty_to

\* AssetForAssetFail with a saturating subtraction: an inbound amount below the
\* outbound one counts as a net of zero
AssetForAssetFail_saturating(ev, swap_info) ==
    LET net_msat_diff ==
            saturating_sub(ev.inbound_amount_msat, ev.expected_outbound_amount_msat)
    IN  \/ net_msat_diff # 0
        \/ ev.expected_outbound_rgb_amount # Some(swap_info.qty_from)
        \/ ev.outbound_rgb_info # swap_info.from_asset
        \/ ev.inbound_rgb_amount # Some(swap_info.qty_to)
        \/ ev.inbound_rgb_info # swap_info.to_asset

\* the asset-for-asset branch
AssetForAssetFail(ev, swap_info) ==
    LET net_msat_diff ==
            checked_sub(ev.inbound_amount_msat, ev.expected_outbound_amount_msat)
    IN  \/ net_msat_diff # Some(0)
        \/ ev.expected_outbound_rgb_amount # Some(swap_info.qty_from)
        \/ ev.outbound_rgb_info # swap_info.from_asset
        \/ ev.inbound_rgb_amount # Some(swap_info.qty_to)
        \/ ev.inbound_rgb_info # swap_info.to_asset

SwapFail(ev, swap_info) ==
    IF is_from_btc(swap_info) THEN FromBtcFail(ev, swap_info)
    ELSE IF is_to_btc(swap_info) THEN ToBtcFail(ev, swap_info)
    ELSE AssetForAssetFail(ev, swap_info)

\* the block `if !is_swap { fail_intercepted_htlc(..) }`: it has no return
NotSwapBlock(L, ev) ==
    IF ~ev.is_swap THEN fail_intercepted_htlc(L, ev.intercept_id) ELSE L

\* WhitelistAndForward that whitelists an unknown hash on the fly instead of failing it
WhitelistAndForward_unknown_honored(L, ev) ==
    IF L.panicked THEN L
    ELSE IF "taker_swaps" \in L.poisoned THEN Panic(L)
    ELSE IF ev.payment_hash \notin DOMAIN L.taker_swaps
    THEN forward_intercepted_htlc(L, ev.intercept_id, ev.requested_next_hop_scid,
            ev.expected_outbound_amount_msat, ev.expected_outbound_rgb_amount)
    ELSE IF SwapFail(ev, L.taker_swaps[ev.payment_hash].swap_info)
    THEN fail_intercepted_htlc(
            update_taker_swap_status(L, ev.payment_hash, "Failed"),
            ev.intercept_id)
    ELSE forward_intercepted_htlc(
            update_taker_swap_status(L, ev.payment_hash, "Pending"),
            ev.intercept_id, ev.requested_next_hop_scid,
            ev.expected_outbound_amount_msat, ev.expected_outbound_rgb_amount)

\* WhitelistAndForward that fails a mismatching HTLC without marking the swap
WhitelistAndForward_mismatch_unmarked(L, ev) ==
    IF L.panicked THEN L
    ELSE IF "taker_swaps" \in L.poisoned THEN Panic(L)
    ELSE IF ev.payment_hash \notin DOMAIN L.taker_swaps
    THEN fail_intercepted_htlc(L, ev.intercept_id)
    ELSE IF SwapFail(ev, L.taker_swaps[ev.payment_hash].swap_info)
    THEN fail_intercepted_htlc(L, ev.intercept_id)
    ELSE forward_intercepted_htlc(
            update_taker_swap_status(L, ev.payment_hash, "Pending"),
            ev.intercept_id, ev.requested_next_hop_scid,
            ev.expected_outbound_amount_msat, ev.expected_outbound_rgb_amount)

\* WhitelistAndForward that forwards the asset amount of the swap record
WhitelistAndForward_recomputed(L, ev) ==
    IF L.panicked THEN L
    ELSE IF "taker_swaps" \in L.poisoned THEN Panic(L)
    ELSE IF ev.payment_hash \notin DOMAIN L.taker_swaps
    THEN fail_intercepted_htlc(L, ev.intercept_id)
    ELSE IF SwapFail(ev, L.taker_swaps[ev.payment_hash].swap_info)
    THEN fail_intercepted_htlc(
            update_taker_swap_status(L, ev.payment_hash, "Failed"),
            ev.intercept_id)
    ELSE forward_intercepted_htlc(
            update_taker_swap_status(L, ev.payment_hash, "Pending"),
            ev.intercept_id, ev.requested_next_hop_scid,
            ev.expected_outbound_amount_msat,
            IF L.taker_swaps[ev.payment_hash].swap_info.to_asset = None
            THEN None
            ELSE Some(L.taker_swaps[ev.payment_hash].swap_info.qty_to))

\* the handler from the whitelist lookup on
WhitelistAndForward(L, ev) ==
    IF L.panicked THEN L
    ELSE IF "taker_swaps" \in L.poisoned THEN Panic(L)
    ELSE IF ev.payment_hash \notin DOMAIN L.taker_swaps
    THEN fail_intercepted_htlc(L, ev.intercept_id)
    ELSE IF SwapFail(ev, L.taker_swaps[ev.payment_hash].swap_info)
    THEN fail_intercepted_htlc(
            update_taker_swap_status(L, ev.payment_hash, "Failed"),
            ev.intercept_id)
    ELSE forward_intercepted_htlc(
            update_taker_swap_status(L, ev.payment_hash, "Pending"),
            ev.intercept_id, ev.requested_next_hop_scid,
            ev.expected_outbound_amount_msat, ev.expected_outbound_rgb_amount)

handle_HTLCIntercepted(L, ev) == WhitelistAndForward(NotSwapBlock(L, ev), ev)

\* the mutexes whose guard the handler holds when it issues its last command:
\* `swaps_lock` is taken for the whitelist lookup and dropped after the
\* validation; the arm of the unknown hash fails the HTLC and returns before
\* that drop
swaps_lock_at_command(L, ev) ==
    IF ev.payment_hash \notin DOMAIN L.taker_swaps
    THEN {"taker_swaps"}
    ELSE {}

(***************************************************************************)
(* Payment and channel events of handle_ldk_events.  The update of the     *)
(* RGB channel amounts (update_rgb_channel_amount) acts on the channel     *)
(* files of the color source, which are not part of this state.            *)
(***************************************************************************)
\* PaymentPurpose: the invoice variants (Bolt11InvoicePayment, Bolt12OfferPayment,
\* Bolt12RefundPayment) carry an optional preimage and a secret, a
\* SpontaneousPayment carries its preimage
PaymentPurposes ==
    [ variant : {"InvoicePayment"}, payment_preimage : Option(Preimages),
      payment_secret : Secrets ]
    \cup [ variant : {"SpontaneousPayment"}, preimage : Preimages ]

PurposePreimage(purpose) ==
    IF purpose.variant = "SpontaneousPayment"
    THEN Some(purpose.preimage) ELSE purpose.payment_preimage

PurposeSecret(purpose) ==
    IF purpose.variant = "SpontaneousPayment"
    THEN None ELSE Some(purpose.payment_secret)

PaymentClaimedEvents ==
    [ type : {"PaymentClaimed"}, payment_hash : Hashes,
      purpose : PaymentPurposes, amount_msat : Amounts ]

\* handle_PaymentClaimed that records the payment of a maker swap as well
handle_PaymentClaimed_both_ledgers(L, ev) ==
    IF "maker_swaps" \in L.poisoned THEN Panic(L)
    ELSE upsert_inbound_payment(
            IF is_maker_swap(L, ev.payment_hash)
            THEN update_maker_swap_status(L, ev.payment_hash, "Succeeded")
            ELSE L,
            ev.payment_hash, "Succeeded",
            PurposePreimage(ev.purpose), PurposeSecret(ev.purpose),
            Some(ev.amount_msat))

handle_PaymentClaimed(L, ev) ==
    IF "maker_swaps" \in L.poisoned THEN Panic(L)
    ELSE IF is_maker_swap(L, ev.payment_hash)
    THEN update_maker_swap_status(L, ev.payment_hash, "Succeeded")
    ELSE upsert_inbound_payment(L, ev.payment_hash, "Succeeded",
            PurposePreimage(ev.purpose), PurposeSecret(ev.purpose),
            Some(ev.amount_msat))

PaymentSentEvents ==
    [ type : {"PaymentSent"}, payment_preimage : Preimages,
      payment_hash : Hashes, payment_id : Option(PaymentIds) ]

handle_PaymentSent(L, ev) ==
    IF "maker_swaps" \in L.poisoned THEN Panic(L)
    ELSE IF is_maker_swap(L, ev.payment_hash)
    THEN update_maker_swap_status(L, ev.payment_hash, "Succeeded")
    ELSE IF ev.payment_id = None THEN Panic(L)
    ELSE update_outbound_payment(L, ev.payment_id[1], "Succeeded",
            Some(ev.payment_preimage))

PaymentFailedEvents ==
    [ type : {"PaymentFailed"}, payment_hash : Hashes, payment_id : PaymentIds ]

handle_PaymentFailed(L, ev) ==
    IF "maker_swaps" \in L.poisoned THEN Panic(L)
    ELSE IF is_maker_swap(L, ev.payment_hash)
    THEN update_maker_swap_status(L, ev.payment_hash, "Failed")
    ELSE update_outbound_payment_status(L, ev.payment_id, "Failed")

InvoiceRequestFailedEvents ==
    [ type : {"InvoiceRequestFailed"}, payment_id : PaymentIds ]

handle_InvoiceRequestFailed(L, ev) ==
    update_outbound_payment_status(L, ev.payment_id, "Failed")

PaymentForwardedEvents ==
    [ type : {"PaymentForwarded"}, payment_hash : Hashes,
      prev_channel_id : Option(ChannelIds), next_channel_id : Option(ChannelIds) ]

\* the two `expect` on the channel ids, then the taker swap is settled
handle_PaymentForwarded(L, ev) ==
    IF ev.prev_channel_id = None \/ ev.next_channel_id = None THEN Panic(L)
    ELSE IF "taker_swaps" \in L.poisoned THEN Panic(L)
    ELSE IF is_taker_swap(L, ev.payment_hash)
    THEN update_taker_swap_status(L, ev.payment_hash, "Succeeded")
    ELSE L

\* the loop over the cloned inbound map: each Pending payment is set Failed
RECURSIVE fail_pending_inbound(_, _)
fail_pending_inbound(L, hashes) ==
    IF hashes = {} THEN L
    ELSE LET h == CHOOSE x \in hashes : TRUE
         IN  fail_pending_inbound(
                update_inbound_payment_status(L, h, "Failed"), hashes \ {h})

\* the loop over the cloned outbound map
RECURSIVE fail_pending_outbound(_, _)
fail_pending_outbound(L, ids) ==
    IF ids = {} THEN L
    ELSE LET id == CHOOSE x \in ids : TRUE
         IN  fail_pending_outbound(
                update_outbound_payment_status(L, id, "Failed"), ids \ {id})

ChannelClosedEvents == [ type : {"ChannelClosed"}, channel_id : ChannelIds ]

\* handle_ChannelClosed that fails every inbound record, whatever its status
handle_ChannelClosed_every_inbound(L, ev, temporary) ==
    IF "inbound_payments" \in L.poisoned \/ "outbound_payments" \in L.poisoned
    THEN Panic(L)
    ELSE LET outbound == {id \in DOMAIN L.outbound_payments :
                            L.outbound_payments[id].status = "Pending"}
         IN  delete_channel_id(
                fail_pending_outbound(
                    fail_pending_inbound(L, DOMAIN L.inbound_payments), outbound),
                ev.channel_id, temporary)

\* `temporary` is what delete_channel_id's find_map returns
handle_ChannelClosed(L, ev, temporary) ==
    IF "inbound_payments" \in L.poisoned \/ "outbound_payments" \in L.poisoned
    THEN Panic(L)
    ELSE LET inbound == {h \in DOMAIN L.inbound_payments :
                            L.inbound_payments[h].status = "Pending"}
             outbound == {id \in DOMAIN L.outbound_payments :
                            L.outbound_payments[id].status = "Pending"}
         IN  delete_channel_id(
                fail_pending_outbound(fail_pending_inbound(L, inbound), outbound),
                ev.channel_id, temporary)

(***************************************************************************)
(* Actions: one per event and per ledger call of another caller.           *)
(***************************************************************************)
HTLCIntercepted(ev) ==
    /\ ~panicked
    /\ CommitEvent(handle_HTLCIntercepted(St, ev))
    /\ event' = ev
    /\ UNCHANGED << now, spenderVars, restVars >>

PaymentClaimed(ev) ==
    /\ ~panicked
    /\ CommitEvent(handle_PaymentClaimed(St, ev))
    /\ event' = NoEvent
    /\ UNCHANGED << now, spenderVars, restVars >>

PaymentSent(ev) ==
    /\ ~panicked
    /\ CommitEvent(handle_PaymentSent(St, ev))
    /\ event' = NoEvent
    /\ UNCHANGED << now, spenderVars, restVars >>

PaymentFailed(ev) ==
    /\ ~panicked
    /\ CommitEvent(handle_PaymentFailed(St, ev))
    /\ event' = NoEvent
    /\ UNCHANGED << now, spenderVars, restVars >>

InvoiceRequestFailed(ev) ==
    /\ ~panicked
    /\ CommitEvent(handle_InvoiceRequestFailed(St, ev))
    /\ event' = NoEvent
    /\ UNCHANGED << now, spenderVars, restVars >>

ChannelClosed(ev) ==
    /\ ~panicked
    /\ \E temporary \in FindTemporary(St, ev.channel_id) :
            CommitEvent(handle_ChannelClosed(St, ev, temporary))
    /\ event' = NoEvent
    /\ UNCHANGED << now, spenderVars, restVars >>

PaymentForwarded(ev) ==
    /\ ~panicked
    /\ CommitEvent(handle_PaymentForwarded(St, ev))
    /\ event' = NoEvent
    /\ UNCHANGED << now, spenderVars, restVars >>

\* the payment records other callers insert when an invoice is created or a
\* payment is sent: Pending, with no preimage and no secret yet
AddedPaymentInfos ==
    [ preimage : {None}, secret : {None},
      status : {"Pending"}, amt_msat : {Some(MaxAmt)} ]

AddInboundPayment(payment_hash, payment_info) ==
    /\ CommitCall(add_inbound_payment(St, payment_hash, payment_info))
    /\ UNCHANGED << event, now, spenderVars, restVars >>

AddOutboundPayment(payment_id, payment_info) ==
    /\ CommitCall(add_outbound_payment(St, payment_id, payment_info))
    /\ UNCHANGED << event, now, spenderVars, restVars >>

AddMakerSwap(payment_hash, swap) ==
    /\ CommitCall(add_maker_swap(St, payment_hash, swap))
    /\ UNCHANGED << event, now, spenderVars, restVars >>

AddTakerSwap(payment_hash, swap) ==
    /\ CommitCall(add_taker_swap(St, payment_hash, swap))
    /\ UNCHANGED << event, now, spenderVars, restVars >>

\* a caller other than the dispatcher sets the status of a maker swap
UpdateMakerSwapStatus(payment_hash, status) ==
    /\ CommitCall(update_maker_swap_status(St, payment_hash, status))
    /\ UNCHANGED << event, now, spenderVars, restVars >>

\* a caller other than the dispatcher sets the status of a taker swap
UpdateTakerSwapStatus(payment_hash, status) ==
    /\ CommitCall(update_taker_swap_status(St, payment_hash, status))
    /\ UNCHANGED << event, now, spenderVars, restVars >>

\* what is left of a funding negotiation when the node restarts: the channel
\* manager persists a channel once the peer has signed the funding, and with
\* it the events it has not handed over yet; an outbound channel that is not
\* funded yet is dropped
AfterRestart(n) == IF n \in {"opening", "unfunded", "funded"} THEN "none" ELSE n

\* start_ldk after a stop or a crash: the maps and the spender's cache are read
\* back from the store, the mutexes are new, and the Pending outbound payments
\* the channel manager does not list are failed
StartLdk(recent_payments_payment_ids) ==
    LET loaded ==
            [ inbound_payments |-> fs_store.inbound_payments,
              outbound_payments |-> fs_store.outbound_payments,
              maker_swaps |-> fs_store.maker_swaps,
              taker_swaps |-> fs_store.taker_swaps,
              channel_ids_map |-> fs_store.channel_ids_map,
              fs_store |-> fs_store,
              poisoned |-> {},
              panicked |-> FALSE,
              commands |-> << >> ]
    IN  /\ CommitEvent(fail_outbound_pending_payments(loaded, recent_payments_payment_ids))
        /\ txes' = fs_store.output_spender_txes
        /\ event' = NoEvent
        /\ rgb_send_lock' = FALSE
        /\ negotiation' = [c \in ChannelIds |-> AfterRestart(negotiation[c])]
        /\ recent_payments' = recent_payments_payment_ids
        /\ guard' = [m \in LockNames |-> "none"]
        /\ call' = [t \in Threads |-> Idle]
        /\ stop_processing' = FALSE
        /\ loops' = LoopsStarted
        /\ background_processor' = "running"
        /\ connected' = {}
        /\ tcp_stream' = FALSE
        /\ shutdown' = NotStopping
        /\ effects' = << >>
        /\ UNCHANGED << now, receive_count, posted, signed, spend, psbt_files, assetVars,
                        wallet_assets, consignment_files >>

\* the clock advances
Tick ==
    /\ now < MaxTime
    /\ now' = now + 1
    /\ UNCHANGED << ledgerVars, event, spenderVars, restVars >>

(***************************************************************************)
(* Channel funding.  A channel is named by its final id; the channel       *)
(* manager negotiated it under the temporary id TemporaryOf, and the       *)
(* funding transaction of the channel c stands for its txid in the name of *)
(* the psbt file.  `negotiation` is the channel manager's side:            *)
(*   none        no such channel yet                                        *)
(*   opening     an open request was accepted, FundingGenerationReady due   *)
(*   unfunded    FundingGenerationReady returned without a funding          *)
(*   funded      the funding transaction was handed to the channel manager  *)
(*   signed      the funding is signed, ChannelPending not handled yet      *)
(*   pending     ChannelPending was handled                                 *)
(*   discarding  the channel failed before the funding was broadcast:       *)
(*               ChannelClosed and DiscardFunding are due                   *)
(*   closing     the channel closed: ChannelClosed is due                   *)
(* An event that is due stays due until its handler returns, over a        *)
(* restart too.                                                            *)
(***************************************************************************)
TemporaryIds == {"tmp1", "tmp2"}

TemporaryOf == [c1 |-> "tmp1", c2 |-> "tmp2"]

ChannelOf(temporary_channel_id) ==
    CHOOSE c \in ChannelIds : TemporaryOf[c] = temporary_channel_id

\* an open-channel request: it is refused while the send-lock is set, else it
\* sets the lock and asks the channel manager to create the channel
OpenChannel(c) ==
    /\ negotiation[c] = "none"
    /\ ~rgb_send_lock
    /\ rgb_send_lock' = TRUE
    /\ negotiation' = [negotiation EXCEPT ![c] = "opening"]
    /\ UNCHANGED << ledgerVars, event, now, spenderVars, psbt_files, recent_payments, outerVars >>

FundingGenerationReadyEvents ==
    [ type : {"FundingGenerationReady"}, temporary_channel_id : TemporaryIds,
      is_colored : BOOLEAN ]

\* where the wallet, the proxy or the peer make the funding fail
FundingFaults(ev) ==
    {"none", "begin_panic", "channel_gone"}
        \cup (IF ev.is_colored THEN {"post_error"} ELSE {})

\* the handler that gives the transaction to the channel manager before the
\* consignment is posted, whatever the proxy answers
funding_generation_steps_command_first(ev, fault) ==
    IF fault = "begin_panic" THEN << >>
    ELSE << "write_psbt", "funding_transaction_generated" >>
            \o (IF ev.is_colored /\ fault # "post_error"
                THEN << "post_consignment" >> ELSE << >>)

\* what Event::FundingGenerationReady does after the psbt is built and signed
\* (unwrap), in the order of the code: the psbt file is written, the
\* consignment of a colored channel is posted and the handler returns if the
\* proxy answers with an error, and the transaction is given to the channel
\* manager
funding_generation_steps(ev, fault) ==
    IF fault = "begin_panic" THEN << >>
    ELSE << "write_psbt" >>
            \o (IF ~ev.is_colored THEN << "funding_transaction_generated" >>
                ELSE IF fault = "post_error" THEN << >>
                ELSE << "post_consignment", "funding_transaction_generated" >>)

\* the steps as effects of the handler of the channel c
EffectsOn(c, steps) == [i \in DOMAIN steps |-> [effect |-> steps[i], channel_id |-> c]]

Did(log, effect) == \E i \in DOMAIN log : log[i].effect = effect

\* Event::FundingGenerationReady.  The channel manager has handed the event
\* over once the handler returns: after a failed post the channel waits
\* unfunded; a transaction it is given may find the channel gone
FundingGenerationReady(ev, fault) ==
    LET c == ChannelOf(ev.temporary_channel_id)
        steps == funding_generation_steps(ev, fault)
    IN  /\ ~panicked
        /\ negotiation[c] = "opening"
        /\ panicked' = (fault = "begin_panic")
        /\ effects' = EffectsOn(c, steps)
        /\ psbt_files' = IF Did(effects', "write_psbt") THEN psbt_files \cup {c} ELSE psbt_files
        /\ negotiation' =
                [negotiation EXCEPT ![c] =
                    IF fault = "begin_panic" THEN "opening"
                    ELSE IF ~Did(effects', "funding_transaction_generated") THEN "unfunded"
                    ELSE IF fault = "channel_gone" THEN "closing"
                    ELSE "funded"]
        /\ commands' = << >>
        /\ event' = NoEvent
        /\ UNCHANGED << inbound_payments, outbound_payments, maker_swaps, taker_swaps,
                        channel_ids_map, fs_store, poisoned, now, spenderVars,
                        rgb_send_lock, recent_payments, assetVars, taskVars,
                        serviceVars, wallet_assets, consignment_files >>

\* a channel that never got its funding is given up by the channel manager
FundingTimesOut(c) ==
    /\ negotiation[c] = "unfunded"
    /\ negotiation' = [negotiation EXCEPT ![c] = "closing"]
    /\ UNCHANGED << ledgerVars, event, now, spenderVars, rgb_send_lock, psbt_files,
                    recent_payments, outerVars >>

\* the peer signs the funding: the channel is persisted and ChannelPending is due
FundingSigned(c) ==
    /\ negotiation[c] = "funded"
    /\ negotiation' = [negotiation EXCEPT ![c] = "signed"]
    /\ UNCHANGED << ledgerVars, event, now, spenderVars, rgb_send_lock, psbt_files,
                    recent_payments, outerVars >>

\* a peer opens a channel to this node and funds it
InboundFunded(c) ==
    /\ negotiation[c] = "none"
    /\ negotiation' = [negotiation EXCEPT ![c] = "signed"]
    /\ UNCHANGED << ledgerVars, event, now, spenderVars, rgb_send_lock, psbt_files,
                    recent_payments, outerVars >>

\* the channel fails before its funding was broadcast
FundingAbandoned(c) ==
    /\ negotiation[c] = "funded"
    /\ negotiation' = [negotiation EXCEPT ![c] = "discarding"]
    /\ UNCHANGED << ledgerVars, event, now, spenderVars, rgb_send_lock, psbt_files,
                    recent_payments, outerVars >>

\* a pending channel is closed
ChannelCloses(c) ==
    /\ negotiation[c] = "pending"
    /\ negotiation' = [negotiation EXCEPT ![c] = "closing"]
    /\ UNCHANGED << ledgerVars, event, now, spenderVars, rgb_send_lock, psbt_files,
                    recent_payments, outerVars >>

ChannelPendingEvents ==
    [ type : {"ChannelPending"}, channel_id : ChannelIds,
      former_temporary_channel_id : Option(TemporaryIds) ]

\* the contract id of the consignment that the funding of a channel carries
ConsignmentAsset == [c1 |-> "rgb1", c2 |-> "rgb1"]

\* the peer's consignment of a funded inbound channel arrives in the color source
ConsignmentStored(c) ==
    /\ negotiation[c] = "signed"
    /\ c \notin psbt_files
    /\ c \notin consignment_files
    /\ consignment_files' = consignment_files \cup {c}
    /\ UNCHANGED << ledgerVars, event, now, spenderVars, channelVars, recent_payments,
                    assetVars, taskVars, serviceVars, effects, wallet_assets >>

\* what the wallet does in the rest of the handler: in sender role
\* rgb_send_end / rgb_send_btc_end (unwrap), in acceptor role the consignment
\* file is missing, or the asset is saved, known already, or cannot be saved
ChannelPendingOutcomes(sender) ==
    IF sender THEN {"send_end_ok", "send_end_panic"}
    ELSE {"no_consignment", "asset_saved", "asset_duplicate", "save_asset_panic"}

\* rgb_save_new_asset of the asset wallet: an asset that is registered already
\* is refused with the error of the unique constraint
rgb_save_new_asset(known, contract_id, wallet_fails) ==
    IF wallet_fails THEN [result |-> "Err", assets |-> known]
    ELSE IF contract_id \in known
    THEN [result |-> "Err(UNIQUE constraint failed)", assets |-> known]
    ELSE [result |-> "Ok", assets |-> known \cup {contract_id}]

\* the acceptor's outcomes that the files and the wallet allow
AcceptorOutcome(known, has_consignment, contract_id, outcome) ==
    IF ~has_consignment THEN outcome = "no_consignment"
    ELSE \/ outcome = "save_asset_panic"
         \/ outcome = "asset_saved" /\ contract_id \notin known
         \/ outcome = "asset_duplicate" /\ contract_id \in known

\* the match on the result of rgb_save_new_asset without the arm of the
\* unique constraint
save_asset_tolerated_ok_only(result) == result = "Ok"

\* the match on the result of rgb_save_new_asset: any other error is a panic
save_asset_tolerated(result) ==
    result \in {"Ok", "Err(UNIQUE constraint failed)"}

\* the handler that takes the acceptor's branch when the psbt file exists
channel_pending_steps_roles_swapped(ev, sender, outcome, saved) ==
    IF ev.former_temporary_channel_id = None THEN << >>
    ELSE << "add_channel_id" >>
            \o (IF ~sender
                THEN IF outcome = "send_end_ok"
                     THEN << "broadcast", "release_send_lock" >> ELSE << >>
                ELSE IF outcome = "no_consignment" THEN << >>
                ELSE IF saved.result = "Ok" THEN << "rgb_save_new_asset" >> ELSE << >>)

\* what Event::ChannelPending does, in the order of the code: the mapping is
\* recorded; with the psbt file of the funding (sender) the transaction is
\* finalized and broadcast by rgb_send_end / rgb_send_btc_end and the
\* send-lock is released; without it (acceptor) the asset of a stored
\* consignment is saved
channel_pending_steps(ev, sender, outcome, saved) ==
    IF ev.former_temporary_channel_id = None THEN << >>
    ELSE << "add_channel_id" >>
            \o (IF sender
                THEN IF outcome = "send_end_ok"
                     THEN << "broadcast", "release_send_lock" >> ELSE << >>
                ELSE IF outcome = "no_consignment" THEN << >>
                ELSE IF saved.result = "Ok" THEN << "rgb_save_new_asset" >> ELSE << >>)

\* the ledger part of Event::ChannelPending and the panics of the wallet part
handle_ChannelPending(L, ev, outcome, saved) ==
    IF ev.former_temporary_channel_id = None THEN Panic(L)
    ELSE LET L1 == add_channel_id(L, ev.former_temporary_channel_id[1], ev.channel_id)
         IN  IF outcome = "send_end_panic" THEN Panic(L1)
             ELSE IF outcome \in {"asset_saved", "asset_duplicate", "save_asset_panic"}
                        /\ ~save_asset_tolerated(saved.result)
             THEN Panic(L1)
             ELSE L1

\* Event::ChannelPending: the sender role is the one that finds the psbt file
\* of the funding; it ends by clearing the send-lock
ChannelPending(ev, outcome) ==
    /\ ~panicked
    /\ negotiation[ev.channel_id] = "signed"
    /\ outcome \in ChannelPendingOutcomes(ev.channel_id \in psbt_files)
    /\ ev.channel_id \notin psbt_files =>
            AcceptorOutcome(wallet_assets, ev.channel_id \in consignment_files,
                            ConsignmentAsset[ev.channel_id], outcome)
    /\ \E saved \in {rgb_save_new_asset(wallet_assets, ConsignmentAsset[ev.channel_id],
                                        outcome = "save_asset_panic")} :
       \E L \in {handle_ChannelPending(St, ev, outcome, saved)} :
        /\ CommitEvent(L)
        /\ effects' = IF "channel_ids_map" \in poisoned
                      THEN << >>
                      ELSE EffectsOn(ev.channel_id,
                                channel_pending_steps(ev, ev.channel_id \in psbt_files,
                                                      outcome, saved))
        /\ rgb_send_lock' =
                IF Did(effects', "release_send_lock") THEN FALSE ELSE rgb_send_lock
        /\ wallet_assets' = IF Did(effects', "rgb_save_new_asset") THEN saved.assets ELSE wallet_assets
        /\ negotiation' =
                IF L.panicked THEN negotiation
                ELSE [negotiation EXCEPT ![ev.channel_id] = "pending"]
    /\ event' = NoEvent
    /\ UNCHANGED << now, spenderVars, psbt_files, recent_payments, assetVars, taskVars,
                    serviceVars, consignment_files >>

DiscardFundingEvents == [ type : {"DiscardFunding"}, channel_id : ChannelIds ]

\* `temporary` is what delete_channel_id's find_map returns
handle_DiscardFunding(L, ev, temporary) ==
    delete_channel_id(L, ev.channel_id, temporary)

\* Event::DiscardFunding: the send-lock is cleared, then the mapping removed
DiscardFunding(ev) ==
    /\ ~panicked
    /\ negotiation[ev.channel_id] = "discarding"
    /\ rgb_send_lock' = FALSE
    /\ \E temporary \in FindTemporary(St, ev.channel_id) :
            CommitEvent(handle_DiscardFunding(St, ev, temporary))
    /\ event' = NoEvent
    /\ UNCHANGED << now, spenderVars, psbt_files, negotiation, recent_payments, outerVars >>

(***************************************************************************)
(* Asset accounting across nodes.  Three nodes share one asset; node1      *)
(* issued the whole supply.  The wallet (balances, direct sends), the      *)
(* coloring of a channel and the RGB-channel accounting belong to the      *)
(* wallet and channel-color collaborators; the node's part is the          *)
(* direction in which its PaymentClaimed and PaymentSent handlers update   *)
(* the accounting.  Each side of the colored channel keeps its own local   *)
(* amount; the close hands every side its local amount back.               *)
(***************************************************************************)
Nodes == {"node1", "node2", "node3"}

\* the units issued by issue_asset_nia
Supply == 1000

ChannelAmounts == {500, 600}
KeysendAmounts == {100}
SendAmounts == {150, 700}

\* update_rgb_channel_amount: the settled amount is added to the local
\* amount of the receiver and taken from that of the sender
update_rgb_channel_amount(local, amount, receiver) ==
    IF receiver THEN local + amount ELSE saturating_sub(local, amount)

\* account_PaymentClaimed that books the payment as a sent one
account_PaymentClaimed_as_sender(local, amount) ==
    update_rgb_channel_amount(local, amount, FALSE)

\* the accounting call of Event::PaymentClaimed
account_PaymentClaimed(local, amount) ==
    update_rgb_channel_amount(local, amount, TRUE)

\* the accounting call of Event::PaymentSent
account_PaymentSent(local, amount) ==
    update_rgb_channel_amount(local, amount, FALSE)

\* every payment over the channel is settled on both sides
Settled == \A h \in DOMAIN rgb_payments : rgb_payments[h].claimed /\ rgb_payments[h].sent

\* open_channel with an asset amount: the funding colors the channel with
\* `amount` units of the opener
OpenColoredChannel(opener, acceptor, amount) ==
    /\ rgb_channel = None
    /\ opener # acceptor
    /\ balance[opener] >= amount
    /\ balance' = [balance EXCEPT ![opener] = @ - amount]
    /\ rgb_channel' =
            Some([ opener |-> opener, acceptor |-> acceptor, amount |-> amount,
                   local |-> [n \in {opener, acceptor} |->
                                IF n = opener THEN amount ELSE 0] ])
    /\ rgb_payments' = EmptyMap
    /\ UNCHANGED << ledgerVars, event, now, spenderVars, channelVars, recent_payments, taskVars, serviceVars, walletVars >>

\* keysend of `amount` units over the channel, one payment at a time
Keysend(payment_hash, from, amount) ==
    /\ rgb_channel # None
    /\ Settled
    /\ payment_hash \notin DOMAIN rgb_payments
    /\ from \in DOMAIN rgb_channel[1].local
    /\ rgb_channel[1].local[from] >= amount
    /\ rgb_payments' =
            MapInsert(rgb_payments, payment_hash,
                [ from |-> from,
                  to |-> CHOOSE n \in DOMAIN rgb_channel[1].local : n # from,
                  amount |-> amount, claimed |-> FALSE, sent |-> FALSE ])
    /\ UNCHANGED << ledgerVars, event, now, spenderVars, channelVars, recent_payments, taskVars, serviceVars, walletVars,
                    balance, rgb_channel >>

\* PaymentClaimed on the receiving node
NodePaymentClaimed(payment_hash) ==
    /\ payment_hash \in DOMAIN rgb_payments
    /\ ~rgb_payments[payment_hash].claimed
    /\ LET payment == rgb_payments[payment_hash]
       IN  rgb_channel' =
                Some([rgb_channel[1] EXCEPT !.local[payment.to] =
                        account_PaymentClaimed(@, payment.amount)])
    /\ rgb_payments' = [rgb_payments EXCEPT ![payment_hash].claimed = TRUE]
    /\ UNCHANGED << ledgerVars, event, now, spenderVars, channelVars, recent_payments, taskVars, serviceVars, walletVars,
                    balance >>

\* PaymentSent on the sending node, once the receiver has claimed
NodePaymentSent(payment_hash) ==
    /\ payment_hash \in DOMAIN rgb_payments
    /\ rgb_payments[payment_hash].claimed
    /\ ~rgb_payments[payment_hash].sent
    /\ LET payment == rgb_payments[payment_hash]
       IN  rgb_channel' =
                Some([rgb_channel[1] EXCEPT !.local[payment.from] =
                        account_PaymentSent(@, payment.amount)])
    /\ rgb_payments' = [rgb_payments EXCEPT ![payment_hash].sent = TRUE]
    /\ UNCHANGED << ledgerVars, event, now, spenderVars, channelVars, recent_payments, taskVars, serviceVars, walletVars,
                    balance >>

\* cooperative close: each side sweeps its output, colored with its local amount
CloseChannel ==
    /\ rgb_channel # None
    /\ Settled
    /\ balance' =
            [n \in Nodes |->
                IF n \in DOMAIN rgb_channel[1].local
                THEN balance[n] + rgb_channel[1].local[n] ELSE balance[n]]
    /\ rgb_channel' = None
    /\ UNCHANGED << ledgerVars, event, now, spenderVars, channelVars, recent_payments, taskVars, serviceVars, walletVars,
                    rgb_payments >>

\* send_asset: a direct transfer between two wallets
SendAsset(from, to, amount) ==
    /\ from # to
    /\ balance[from] >= amount
    /\ balance' = [balance EXCEPT ![from] = @ - amount, ![to] = @ + amount]
    /\ UNCHANGED << ledgerVars, event, now, spenderVars, channelVars, recent_payments, taskVars, serviceVars, walletVars,
                    rgb_channel, rgb_payments >>

(***************************************************************************)
(* RgbOutputSpender::spend_spendable_outputs.  A descriptor is the         *)
(* outpoint it spends.  The transfer-info files of the color source are    *)
(* fixed: t1 has no record, t2 and t3 carry rgb1, t4 carries rgb2, t5 has  *)
(* a record with a zero amount and t6 carries the largest amount of rgb1   *)
(* that the record can hold.  The asset wallet, the proxy and the          *)
(* signer are outside the node: witness_receive hands out a new recipient  *)
(* id on each request, and `fault` says where the outside world makes the  *)
(* call fail, if anywhere.                                                 *)
(***************************************************************************)
\* the asset wallet serves at most MaxReceives witness_receive requests
MaxReceives == 2

\* the width of an asset amount: u64 at the scale of the model
U64Bits == 3

u64_MAX == 2 ^ U64Bits - 1

\* `a += b` on u64 in a build without overflow checks
wrapping_add(a, b) == (a + b) % (u64_MAX + 1)

Txids == {"t1", "t2", "t3", "t4", "t5", "t6"}

TransferInfoFiles ==
    [ t2 |-> [contract_id |-> "rgb1", rgb_amount |-> MaxAmt],
      t3 |-> [contract_id |-> "rgb1", rgb_amount |-> MaxAmt],
      t4 |-> [contract_id |-> "rgb2", rgb_amount |-> MaxAmt],
      t5 |-> [contract_id |-> "rgb1", rgb_amount |-> 0],
      t6 |-> [contract_id |-> "rgb1", rgb_amount |-> u64_MAX] ]

read_rgb_transfer_info(txid) == TransferInfoFiles[txid]

Descriptors == [txid : Txids, index : {0}]

\* the batch that spends output 0 of each of the transactions `txids`
Batch(txids) == [i \in DOMAIN txids |-> [txid |-> txids[i], index |-> 0]]

\* the `outputs` argument: the output sweeper passes an empty list
SweeperOutputs == { << >> }

\* the `outputs` argument of any caller: no output, or a payout of the caller
CallerOutputs ==
    { << >>, << [value |-> "sats", script_pubkey |-> << "payout" >>] >> }

\* the descriptors of a batch that carry asset value
AssetBearing(descriptors) ==
    { i \in DOMAIN descriptors :
        /\ descriptors[i].txid \in DOMAIN TransferInfoFiles
        /\ read_rgb_transfer_info(descriptors[i].txid).rgb_amount # 0 }

BatchAssets(descriptors) ==
    { read_rgb_transfer_info(descriptors[i].txid).contract_id :
        i \in AssetBearing(descriptors) }

\* DefaultHasher over the slice of descriptors: it depends on the descriptors
\* and on their order.  The positional code below has no collision on
\* batches of the transactions of the model.
TxNum == [t1 |-> 1, t2 |-> 2, t3 |-> 3, t4 |-> 4, t5 |-> 5, t6 |-> 6]

RECURSIVE HashFrom(_, _, _)
HashFrom(descriptors, i, h) ==
    IF i > Len(descriptors) THEN h
    ELSE HashFrom(descriptors, i + 1,
            h * (Cardinality(Txids) + 1) + TxNum[descriptors[i].txid])

DescriptorsHash(descriptors) == HashFrom(descriptors, 1, 0)

\* where the outside world may fail a call on a batch: a wallet or chain call on the
\* at-th descriptor, the posting of the at-th consignment, or a crash of the
\* process after the transaction was signed and `at` consignments were posted;
\* "overflow_panic" is a build with overflow checks, where an addition at the
\* at-th descriptor that overflows panics instead of wrapping
Faults(descriptors) ==
    IF AssetBearing(descriptors) = {}
    THEN [ kind : {"none", "vanilla_err"}, at : {0} ]
    ELSE [ kind : {"none", "sign_panic", "write_panic"}, at : {0} ]
         \cup [ kind : {"get_tx_height_err", "update_witnesses_failed", "receive_panic",
                         "overflow_panic"},
                at : AssetBearing(descriptors) ]
         \cup [ kind : {"post_join_error", "post_error_ignored"},
                at : 1 .. Cardinality(BatchAssets(descriptors)) ]
         \cup [ kind : {"crash"}, at : 0 .. Cardinality(BatchAssets(descriptors)) ]

\* the orders in which color_psbt_and_consume may return the consignments of
\* a transaction that carries `assets'
ConsignmentOrders(assets) ==
    { o \in [1 .. Cardinality(assets) -> assets] :
        \A i, j \in DOMAIN o : i # j => o[i] # o[j] }

ResultOk(tx) == [variant |-> "Ok", tx |-> tx]
ResultErr == [variant |-> "Err"]
ResultPanic == [variant |-> "panic"]
ResultCrash == [variant |-> "crash"]

\* carries_asset on a loop that takes every transfer-info record for asset value
carries_asset_any_record(txid) == txid \in DOMAIN TransferInfoFiles

\* the descriptor is not skipped by the loop: the transaction of its outpoint
\* has a transfer-info record, and the record's amount is not zero
carries_asset(txid) ==
    /\ txid \in DOMAIN TransferInfoFiles
    /\ read_rgb_transfer_info(txid).rgb_amount # 0

\* asset_is_new on a loop that takes every descriptor for a new asset
asset_is_new_always(asset_info, contract_id) == TRUE

\* asset_info.get(&contract_id) finds no entry: the first descriptor of the asset
asset_is_new(asset_info, contract_id) == contract_id \notin DOMAIN asset_info

\* the loop over the descriptors; `acc` holds the loop's locals, `receives`
\* the witness_receive requests made so far and `ret` an early exit
RECURSIVE ScanDescriptors(_, _, _, _, _)
ScanDescriptors(descriptors, i, acc, fault, served) ==
    IF i > Len(descriptors) \/ acc.ret # "continue" THEN acc
    ELSE LET outpoint == descriptors[i]
         IN  IF ~carries_asset(outpoint.txid)
             THEN ScanDescriptors(descriptors, i + 1, acc, fault, served)
             ELSE IF fault \in [kind : {"get_tx_height_err", "update_witnesses_failed"}, at : {i}]
             THEN [acc EXCEPT !.vanilla_descriptor = FALSE, !.ret = "Err"]
             ELSE LET transfer_info == read_rgb_transfer_info(outpoint.txid)
                      contract_id == transfer_info.contract_id
                      new_asset == asset_is_new(acc.asset_info, contract_id)
                      recipient_id ==
                          IF new_asset THEN served + acc.receives + 1
                          ELSE acc.asset_info[contract_id].recipient_id
                      amt_rgb == transfer_info.rgb_amount
                      overflows ==
                          /\ ~new_asset
                          /\ acc.asset_info[contract_id].amt_rgb + amt_rgb > u64_MAX
                      entry ==
                          IF new_asset
                          THEN [ vout |-> acc.vout, amt_rgb |-> amt_rgb,
                                 recipient_id |-> recipient_id,
                                 input_outpoints |-> << outpoint >> ]
                          ELSE [ acc.asset_info[contract_id] EXCEPT
                                   !.amt_rgb = wrapping_add(@, amt_rgb),
                                   !.input_outpoints = Append(@, outpoint) ]
                 IN  IF new_asset /\ fault = [kind |-> "receive_panic", at |-> i]
                     THEN [acc EXCEPT !.vanilla_descriptor = FALSE, !.ret = "panic"]
                     ELSE IF overflows /\ fault = [kind |-> "overflow_panic", at |-> i]
                     THEN [acc EXCEPT !.vanilla_descriptor = FALSE, !.ret = "panic"]
                     ELSE ScanDescriptors(descriptors, i + 1,
                            [ vout |-> IF new_asset THEN acc.vout + 1 ELSE acc.vout,
                              vanilla_descriptor |-> FALSE,
                              txouts |-> IF new_asset
                                         THEN Append(acc.txouts,
                                                [ value |-> "dust",
                                                  script_pubkey |-> << "recipient", recipient_id >> ])
                                         ELSE acc.txouts,
                              asset_info |-> MapInsert(acc.asset_info, contract_id, entry),
                              receives |-> IF new_asset THEN acc.receives + 1 ELSE acc.receives,
                              ret |-> "continue" ],
                            fault, served)

\* the loop over the consignments: each is posted to the proxy with the
\* recipient id and the vout of its asset
RECURSIVE PostConsignments(_, _, _, _, _, _)
PostConsignments(consignments, j, log, fault, closing_txid, asset_info) ==
    IF fault = [kind |-> "crash", at |-> j - 1]
    THEN [posted |-> log, ret |-> "crash"]
    ELSE IF j > Len(consignments) THEN [posted |-> log, ret |-> "done"]
    ELSE IF fault = [kind |-> "post_join_error", at |-> j]
    THEN [posted |-> log, ret |-> "Err"]
    ELSE IF fault = [kind |-> "post_error_ignored", at |-> j]
    THEN PostConsignments(consignments, j + 1, log, fault, closing_txid, asset_info)
    ELSE PostConsignments(consignments, j + 1,
            Append(log, [ contract_id |-> consignments[j],
                          recipient_id |-> asset_info[consignments[j]].recipient_id,
                          txid |-> closing_txid,
                          vout |-> asset_info[consignments[j]].vout ]),
            fault, closing_txid, asset_info)


\* CachedTx on a cache that is never consulted: every call is a miss
CachedTx_miss(cache, descriptors_hash) == None

\* txes.get(&descriptors_hash)
CachedTx(cache, descriptors_hash) ==
    IF descriptors_hash \in DOMAIN cache THEN Some(cache[descriptors_hash]) ELSE None

\* the coloring handed to color_psbt_and_consume
AssetInfoMap(asset_info) ==
    [ contract_id \in DOMAIN asset_info |->
        [ output_map |-> [ v \in {asset_info[contract_id].vout} |->
                             asset_info[contract_id].amt_rgb ],
          input_outpoints |-> asset_info[contract_id].input_outpoints ] ]

\* the transaction id of a transaction
Txid(tx) == << "txid", tx >>

\* the spender's state while a call runs
SpenderSt ==
    [ txes |-> txes,
      stored |-> fs_store.output_spender_txes,
      receive_count |-> receive_count,
      posted |-> posted,
      signed |-> signed,
      poisoned |-> poisoned,
      from_cache |-> FALSE,
      result |-> ResultPanic ]

\* a panic while the guard of txes is held
PanicSpender(S) ==
    [S EXCEPT !.poisoned = @ \cup {"txes"}, !.result = ResultPanic]

\* the call from the lookup to the return; `consignments` is the order in
\* which the wallet returns the consignments of the colored transaction
spend_spendable_outputs(S, descriptors, outputs, consignments, fault) ==
    LET descriptors_hash == DescriptorsHash(descriptors)
        cached == CachedTx(S.txes, descriptors_hash)
    IN
    IF "txes" \in S.poisoned THEN [S EXCEPT !.result = ResultPanic]
    ELSE IF cached # None
    THEN [S EXCEPT !.from_cache = TRUE, !.result = ResultOk(cached[1])]
    ELSE
    LET scan == ScanDescriptors(descriptors, 1,
                    [ vout |-> 0, vanilla_descriptor |-> TRUE, txouts |-> outputs,
                      asset_info |-> EmptyMap, receives |-> 0, ret |-> "continue" ],
                    fault, S.receive_count)
        S1 == [S EXCEPT !.receive_count = @ + scan.receives]
        spending_tx ==
            [ input |-> descriptors, output |-> scan.txouts,
              coloring |-> AssetInfoMap(scan.asset_info) ]
        S2 == [S1 EXCEPT !.signed = @ \cup {spending_tx}]
        posts == PostConsignments(consignments, 1, S2.posted, fault,
                    Txid(spending_tx), scan.asset_info)
        S3 == [S2 EXCEPT !.posted = posts.posted]
        S4 == [S3 EXCEPT !.txes = MapInsert(@, descriptors_hash, spending_tx)]
    IN
    IF scan.ret = "Err" THEN [S1 EXCEPT !.result = ResultErr]
    ELSE IF scan.ret = "panic" THEN PanicSpender(S1)
    ELSE IF scan.vanilla_descriptor
    THEN IF fault.kind = "vanilla_err" THEN [S1 EXCEPT !.result = ResultErr]
         ELSE [S1 EXCEPT !.result =
                 ResultOk([input |-> descriptors, output |-> outputs, coloring |-> EmptyMap])]
    ELSE IF fault.kind = "sign_panic" THEN PanicSpender(S1)
    ELSE IF posts.ret = "crash" THEN [S3 EXCEPT !.result = ResultCrash]
    ELSE IF posts.ret = "Err" THEN [S3 EXCEPT !.result = ResultErr]
    ELSE IF fault.kind = "write_panic" THEN PanicSpender(S4)
    ELSE [S4 EXCEPT !.stored = S4.txes, !.result = ResultOk(spending_tx)]

\* the process is gone after a crash: no task runs and no mutex can be taken
\* until start_ldk builds the state anew
Down == panicked /\ poisoned = LockNames

SpendSpendableOutputs(descriptors, outputs, consignments, fault) ==
    /\ ~Down
    /\ \/ DescriptorsHash(descriptors) \in DOMAIN txes
       \/ receive_count + Cardinality(BatchAssets(descriptors)) <= MaxReceives
    /\ \E S \in {spend_spendable_outputs(SpenderSt, descriptors, outputs, consignments, fault)} :
       LET crashed == S.result = ResultCrash
       IN  /\ txes' = S.txes
           /\ fs_store' = [fs_store EXCEPT !.output_spender_txes = S.stored]
           /\ receive_count' = S.receive_count
           /\ posted' = S.posted
           /\ signed' = S.signed
           /\ poisoned' = IF crashed THEN LockNames ELSE S.poisoned
           /\ panicked' = (panicked \/ crashed)
           /\ spend' = [ type |-> "Spend", descriptors |-> descriptors,
                         outputs |-> outputs, from_cache |-> S.from_cache,
                         result |-> S.result ]
    /\ UNCHANGED << inbound_payments, outbound_payments, maker_swaps, taker_swaps,
                    channel_ids_map, commands, event, now, restVars >>

(***************************************************************************)
(* Initial states.                                                         *)
(***************************************************************************)
EmptyStore ==
    [ inbound_payments |-> EmptyMap, outbound_payments |-> EmptyMap,
      maker_swaps |-> EmptyMap, taker_swaps |-> EmptyMap,
      channel_ids_map |-> EmptyMap, output_spender_txes |-> EmptyMap ]

\* the node after start_ldk on the persisted state `store`
Started(store) ==
    /\ inbound_payments = store.inbound_payments
    /\ outbound_payments = store.outbound_payments
    /\ maker_swaps = store.maker_swaps
    /\ taker_swaps = store.taker_swaps
    /\ channel_ids_map = store.channel_ids_map
    /\ fs_store = store
    /\ poisoned = {}
    /\ panicked = FALSE
    /\ commands = << >>
    /\ event = NoEvent
    /\ now = 1
    /\ txes = store.output_spender_txes
    /\ receive_count = 0
    /\ posted = << >>
    /\ signed = {}
    /\ spend = NoSpend
    /\ rgb_send_lock = FALSE
    /\ psbt_files = {}
    /\ negotiation = [c \in ChannelIds |-> "none"]
    /\ recent_payments = {}
    /\ balance = [n \in Nodes |-> IF n = "node1" THEN Supply ELSE 0]
    /\ rgb_channel = None
    /\ rgb_payments = EmptyMap
    /\ guard = [m \in LockNames |-> "none"]
    /\ call = [t \in Threads |-> Idle]
    /\ stop_processing = FALSE
    /\ loops = LoopsStarted
    /\ background_processor = "running"
    /\ connected = {}
    /\ tcp_stream = FALSE
    /\ shutdown = NotStopping
    /\ effects = << >>
    /\ wallet_assets = {}
    /\ consignment_files = {}

vars == << inbound_payments, outbound_payments, maker_swaps, taker_swaps,
           channel_ids_map, fs_store, poisoned, panicked, commands, event, now,
           txes, receive_count, posted, signed, spend,
           rgb_send_lock, psbt_files, negotiation, recent_payments,
           balance, rgb_channel, rgb_payments, guard, call,
           stop_processing, loops, background_processor, connected, tcp_stream,
           shutdown, effects, wallet_assets, consignment_files >>

(***************************************************************************)
(* SpecValidate: the swap validator on one intercepted HTLC.  The taker    *)
(* map holds no swap or one whitelisted swap of any terms under "h1"; one  *)
(* HTLCIntercepted event of any content is handled.                        *)
(***************************************************************************)
InitValidate ==
    \E m \in {EmptyMap} \cup {[h \in {"h1"} |-> NewSwap(i)] : i \in SwapInfos} :
        Started([EmptyStore EXCEPT !.taker_swaps = m])

NextValidate ==
    /\ event = NoEvent
    /\ \E ev \in HTLCInterceptedEvents : HTLCIntercepted(ev)

SpecValidate == InitValidate /\ [][NextValidate]_vars

(***************************************************************************)
(* SpecPay: the payment ledger under the payment and channel events, the   *)
(* insertions of other callers and restarts.                               *)
(***************************************************************************)
InitPay == Started(EmptyStore)

NextPay ==
    \/ \E h \in Hashes, i \in AddedPaymentInfos : AddInboundPayment(h, i)
    \/ \E id \in PaymentIds, i \in AddedPaymentInfos : AddOutboundPayment(id, i)
    \/ \E ev \in PaymentClaimedEvents : PaymentClaimed(ev)
    \/ \E ev \in PaymentSentEvents : PaymentSent(ev)
    \/ \E ev \in PaymentFailedEvents : PaymentFailed(ev)
    \/ \E ev \in InvoiceRequestFailedEvents : InvoiceRequestFailed(ev)
    \/ \E ev \in ChannelClosedEvents : ChannelClosed(ev)
    \/ \E recent \in SUBSET PaymentIds : StartLdk(recent)

SpecPay == InitPay /\ [][NextPay]_vars

(***************************************************************************)
(* SpecSwap: the life of the taker swaps.  Swaps of one kind of terms      *)
(* (buy MaxAmt of rgb1 for MaxAmt msat) are whitelisted; the intercepted   *)
(* HTLCs carry the swap flag and either match these terms or carry the     *)
(* wrong asset amount.                                                     *)
(***************************************************************************)
SwapTerms ==
    { i \in SwapInfos :
        /\ i.kind = "FromBtc"
        /\ i.from_asset = None /\ i.to_asset = Some("rgb1")
        /\ i.qty_from = MaxAmt /\ i.qty_to = MaxAmt }

SwapHTLCs ==
    { ev \in HTLCInterceptedEvents :
        /\ ev.is_swap
        /\ ev.intercept_id = "i1"
        /\ ev.inbound_amount_msat = 0
        /\ ev.expected_outbound_amount_msat = MaxAmt
        /\ ev.inbound_rgb_amount \in {Some(0), Some(MaxAmt)}
        /\ ev.inbound_rgb_info = Some("rgb1")
        /\ ev.expected_outbound_rgb_amount = None
        /\ ev.outbound_rgb_info = None }

InitSwap == Started(EmptyStore)

NextSwap ==
    \/ \E h \in Hashes, i \in SwapTerms : AddTakerSwap(h, NewSwap(i))
    \/ \E ev \in SwapHTLCs : HTLCIntercepted(ev)
    \/ \E ev \in PaymentForwardedEvents : PaymentForwarded(ev)
    \/ StartLdk({})
    \/ Tick

SpecSwap == InitSwap /\ [][NextSwap]_vars

(***************************************************************************)
(* SpecLedger: the two swap maps under the public operations of the ledger *)
(* store called with any payment hash and any status, and restarts.        *)
(***************************************************************************)
InitLedger == Started(EmptyStore)

NextLedger ==
    \/ \E h \in Hashes, i \in SwapTerms : AddMakerSwap(h, NewSwap(i))
    \/ \E h \in Hashes, i \in SwapTerms : AddTakerSwap(h, NewSwap(i))
    \/ \E h \in Hashes, status \in SwapStatuses : UpdateMakerSwapStatus(h, status)
    \/ \E h \in Hashes, status \in SwapStatuses : UpdateTakerSwapStatus(h, status)
    \/ StartLdk({})

SpecLedger == InitLedger /\ [][NextLedger]_vars

(***************************************************************************)
(* SpecStop: the background services of start_ldk and their shutdown by    *)
(* stop_ldk.  The acceptor waits in accept() and looks at the stop flag    *)
(* after each accepted connection; the chain poller looks at it before     *)
(* each poll; the reconnect loop looks at it inside its loop over the      *)
(* channels whose counterparty is not connected.  The listener lives as    *)
(* long as the acceptor task, so the peer port is free once the acceptor   *)
(* has exited.  Peers, the disk and the network are the outside world.     *)
(***************************************************************************)
\* the seconds stop_ldk waits for the peer port before it gives up
PortWaitSecs == 10

\* what one pass of the wait takes: the sleep of one second, or a longer one
SleepSecs == {1, 2}

nonServiceVars == << ledgerVars, event, now, spenderVars, channelVars,
                     recent_payments, assetVars, taskVars, walletVars >>

\* channel_manager.list_channels()
ListedChannels ==
    {c \in ChannelIds : negotiation[c] \in {"signed", "pending", "closing"}}

\* AppState::stop_ldk: the flag is stored, the peers are disconnected and the
\* background processor is told to exit unless its channel is closed already
AppStateStopLdk ==
    /\ shutdown.pc = "idle"
    /\ stop_processing' = TRUE
    /\ connected' = {}
    /\ IF background_processor = "failed"
       THEN /\ shutdown' = [pc |-> "connecting", elapsed |-> 0]
            /\ UNCHANGED background_processor
       ELSE /\ shutdown' = [pc |-> "joining", elapsed |-> 0]
            /\ background_processor' = "signalled"
    /\ UNCHANGED << loops, tcp_stream, nonServiceVars >>

\* process_events_async returns after the exit signal
BackgroundProcessorExits ==
    /\ background_processor = "signalled"
    /\ background_processor' = "finished"
    /\ UNCHANGED << stop_processing, loops, connected, tcp_stream, shutdown,
                    nonServiceVars >>

\* process_events_async ends with an error or a panic of an event handler
BackgroundProcessorFails ==
    /\ background_processor \in {"running", "signalled"}
    /\ background_processor' = "failed"
    /\ UNCHANGED << stop_processing, loops, connected, tcp_stream, shutdown,
                    nonServiceVars >>

\* stop_ldk: join_handle.await.unwrap().unwrap()
JoinBackgroundProcessor ==
    /\ shutdown.pc = "joining"
    /\ background_processor \in {"finished", "failed"}
    /\ shutdown' = [shutdown EXCEPT !.pc =
                        IF background_processor = "finished"
                        THEN "connecting" ELSE "panicked"]
    /\ UNCHANGED << stop_processing, loops, background_processor, connected,
                    tcp_stream, nonServiceVars >>

\* stop_ldk connects to its own peer port; the result is dropped
ConnectToPeerPort(ok) ==
    /\ shutdown.pc = "connecting"
    /\ tcp_stream' = (tcp_stream \/ (ok /\ loops.acceptor = "accepting"))
    /\ shutdown' = [shutdown EXCEPT !.pc = "polling"]
    /\ UNCHANGED << stop_processing, loops, background_processor, connected,
                    nonServiceVars >>

\* the decision of one pass of the wait for the port
port_wait_gives_up(bind_ok, elapsed) ==
    IF bind_ok \/ elapsed > PortWaitSecs THEN "stopped" ELSE "polling"

port_wait(bind_ok, elapsed) ==
    IF bind_ok THEN "stopped"
    ELSE IF elapsed > PortWaitSecs THEN "panicked"
    ELSE "polling"

\* stop_ldk: one pass of the wait: sleep, bind, look at the time
PollPeerPort(secs) ==
    /\ shutdown.pc = "polling"
    /\ shutdown' =
            [ pc |-> port_wait(loops.acceptor = "exited", shutdown.elapsed + secs),
              elapsed |-> shutdown.elapsed + secs ]
    /\ UNCHANGED << stop_processing, loops, background_processor, connected,
                    tcp_stream, nonServiceVars >>

\* a peer connects to the peer port
PeerConnects ==
    /\ loops.acceptor = "accepting"
    /\ ~tcp_stream
    /\ tcp_stream' = TRUE
    /\ UNCHANGED << stop_processing, loops, background_processor, connected,
                    shutdown, nonServiceVars >>

\* the acceptor: accept() returned a connection; `peer` is the channel whose
\* counterparty connected, "other" for any other peer
AcceptorAccepts(peer) ==
    /\ loops.acceptor = "accepting"
    /\ tcp_stream
    /\ tcp_stream' = FALSE
    /\ IF stop_processing
       THEN /\ loops' = [loops EXCEPT !.acceptor = "exited"]
            /\ UNCHANGED connected
       ELSE /\ connected' = connected \cup ({peer} \cap ChannelIds)
            /\ UNCHANGED loops
    /\ UNCHANGED << stop_processing, background_processor, shutdown, nonServiceVars >>

\* the chain poller at the top of its loop
ChainPollerChecks ==
    /\ loops.chain_poller = "checking"
    /\ loops' = [loops EXCEPT !.chain_poller =
                    IF stop_processing THEN "exited" ELSE "sleeping"]
    /\ UNCHANGED << stop_processing, background_processor, connected, tcp_stream,
                    shutdown, nonServiceVars >>

\* the chain poller has polled and slept
ChainPollerWakes ==
    /\ loops.chain_poller = "sleeping"
    /\ loops' = [loops EXCEPT !.chain_poller = "checking"]
    /\ UNCHANGED << stop_processing, background_processor, connected, tcp_stream,
                    shutdown, nonServiceVars >>

\* the reconnect loop: interval.tick() returned
ReconnectTicks ==
    /\ loops.reconnect = "waiting"
    /\ loops' = [loops EXCEPT !.reconnect = "scanning"]
    /\ UNCHANGED << stop_processing, background_processor, connected, tcp_stream,
                    shutdown, nonServiceVars >>

\* the reconnect loop: the body of one iteration; read_ok is the outcome of
\* read_channel_peer_data and `reached` the peers do_connect_peer reaches
ReconnectScans(read_ok, reached) ==
    /\ loops.reconnect = "scanning"
    /\ LET targets == ListedChannels \ connected
       IN  IF read_ok /\ targets # {}
           THEN IF stop_processing
                THEN /\ loops' = [loops EXCEPT !.reconnect = "exited"]
                     /\ UNCHANGED connected
                ELSE /\ loops' = [loops EXCEPT !.reconnect = "waiting"]
                     /\ connected' = connected \cup (reached \cap targets)
           ELSE /\ loops' = [loops EXCEPT !.reconnect = "waiting"]
                /\ UNCHANGED connected
    /\ UNCHANGED << stop_processing, background_processor, tcp_stream, shutdown,
                    nonServiceVars >>

InitStop == Started(EmptyStore)

NextStop ==
    \/ ~stop_processing /\ \E c \in ChannelIds : InboundFunded(c)
    \/ AppStateStopLdk
    \/ BackgroundProcessorExits
    \/ BackgroundProcessorFails
    \/ JoinBackgroundProcessor
    \/ \E ok \in BOOLEAN : ConnectToPeerPort(ok)
    \/ \E secs \in SleepSecs : PollPeerPort(secs)
    \/ PeerConnects
    \/ \E peer \in ChannelIds \cup {"other"} : AcceptorAccepts(peer)
    \/ ChainPollerChecks
    \/ ChainPollerWakes
    \/ ReconnectTicks
    \/ \E read_ok \in BOOLEAN, reached \in SUBSET ChannelIds :
            ReconnectScans(read_ok, reached)
    \/ shutdown.pc \in {"stopped", "panicked"} /\ StartLdk({})

SpecStop == InitStop /\ [][NextStop]_vars

(***************************************************************************)
(* SpecCallers: two tasks call the public operations of the ledger store   *)
(* at the same time.  An operation takes the guard of its map (getter),    *)
(* changes the map in memory, encodes it as the argument of the write,     *)
(* writes the blob and drops the guard, which save_* took by value, when   *)
(* save_* returns.  The write can fail: its unwrap then panics under the   *)
(* guard.                                                                  *)
(***************************************************************************)
LedgerMaps == {"inbound_payments", "outbound_payments", "maker_swaps",
               "taker_swaps", "channel_ids_map"}

\* the maps in memory, by name
Memory ==
    [ inbound_payments |-> inbound_payments,
      outbound_payments |-> outbound_payments,
      maker_swaps |-> maker_swaps,
      taker_swaps |-> taker_swaps,
      channel_ids_map |-> channel_ids_map ]

\* the operations the callers ask for: two insertions and a status update in
\* one map, and operations on three other maps
Requests ==
    [ op : {"add_maker_swap"}, key : Hashes, status : {"Waiting"} ]
    \cup [ op : {"update_maker_swap_status"}, key : {"h1"}, status : {"Pending"} ]
    \cup [ op : {"upsert_inbound_payment"}, key : {"h2"}, status : {"Succeeded"} ]
    \cup [ op : {"add_outbound_payment"}, key : {"h1"}, status : {"Pending"} ]
    \cup [ op : {"fail_outbound_pending_payments"}, key : {"h2"}, status : {"Failed"} ]
    \cup [ op : {"add_channel_id"}, key : {"c1"}, status : {"-"} ]
    \cup [ op : {"delete_channel_id"}, key : {"c1"}, status : {"-"} ]

\* the map an operation works on
MapOf(req) ==
    CASE req.op \in {"add_maker_swap", "update_maker_swap_status"} -> "maker_swaps"
      [] req.op = "upsert_inbound_payment" -> "inbound_payments"
      [] req.op \in {"add_outbound_payment",
                     "fail_outbound_pending_payments"} -> "outbound_payments"
      [] OTHER -> "channel_ids_map"

\* what the operation makes of the ledger L
Outcomes(L, req) ==
    LET swap == NewSwap(CHOOSE i \in SwapTerms : TRUE)
        payment_info == CHOOSE i \in AddedPaymentInfos : TRUE
    IN  CASE req.op = "add_maker_swap" -> {add_maker_swap(L, req.key, swap)}
          [] req.op = "update_maker_swap_status" ->
                {update_maker_swap_status(L, req.key, req.status)}
          [] req.op = "upsert_inbound_payment" ->
                {upsert_inbound_payment(L, req.key, req.status, Some("p1"), None,
                                        Some(MaxAmt))}
          [] req.op = "add_outbound_payment" ->
                {add_outbound_payment(L, req.key, payment_info)}
          [] req.op = "fail_outbound_pending_payments" ->
                {fail_outbound_pending_payments(L, {req.key})}
          [] req.op = "add_channel_id" ->
                {add_channel_id(L, TemporaryOf[req.key], req.key)}
          [] OTHER ->
                {delete_channel_id(L, req.key, temporary) :
                    temporary \in FindTemporary(L, req.key)}

\* delete_channel_id returns without a write when it finds no entry
Saves(L, req, outcome) == ~(req.op = "delete_channel_id" /\ outcome = L)

\* the guard is dropped when save_* returns, after the write
guard_dropped_at_encode == "encode"

guard_dropped_at == "write"

\* the caller t enters the operation: it waits for the guard, then changes the
\* map in memory; a panic (a poisoned mutex, a missing record, Waiting) ends
\* the call
Call(t, req) ==
    /\ call[t] = Idle
    /\ guard[MapOf(req)] = "none"
    /\ \E outcome \in Outcomes(St, req) :
            /\ inbound_payments' = outcome.inbound_payments
            /\ outbound_payments' = outcome.outbound_payments
            /\ maker_swaps' = outcome.maker_swaps
            /\ taker_swaps' = outcome.taker_swaps
            /\ channel_ids_map' = outcome.channel_ids_map
            /\ poisoned' = outcome.poisoned
            /\ IF outcome.panicked \/ ~Saves(St, req, outcome)
               THEN UNCHANGED << guard, call >>
               ELSE /\ guard' = [guard EXCEPT ![MapOf(req)] = t]
                    /\ call' = [call EXCEPT ![t] =
                            [stage |-> "mutated", req |-> req, blob |-> None]]
    /\ UNCHANGED << fs_store, panicked, commands, event, now, spenderVars,
                    channelVars, recent_payments, assetVars, walletVars,
                    serviceVars >>

\* save_*: the map is encoded
Encode(t) ==
    /\ call[t].stage = "mutated"
    /\ call' = [call EXCEPT ![t] =
            [@ EXCEPT !.stage = "encoded",
                      !.blob = Some(Memory[MapOf(call[t].req)])]]
    /\ guard' = IF guard_dropped_at = "encode"
                THEN [guard EXCEPT ![MapOf(call[t].req)] = "none"]
                ELSE guard
    /\ UNCHANGED << ledgerVars, event, now, spenderVars, channelVars,
                    recent_payments, assetVars, walletVars, serviceVars >>

\* save_*: the blob is written, the guard dropped, and the operation returns
Write(t) ==
    /\ call[t].stage = "encoded"
    /\ fs_store' = [fs_store EXCEPT ![MapOf(call[t].req)] = call[t].blob[1]]
    /\ guard' = [guard EXCEPT ![MapOf(call[t].req)] =
                    IF @ = t THEN "none" ELSE @]
    /\ call' = [call EXCEPT ![t] = Idle]
    /\ UNCHANGED << inbound_payments, outbound_payments, maker_swaps, taker_swaps,
                    channel_ids_map, poisoned, panicked, commands, event, now,
                    spenderVars, channelVars, recent_payments, assetVars, walletVars,
                    serviceVars >>

\* WriteFails on a save_* that logs the failed write and returns
WriteFails_error_swallowed(t) ==
    /\ call[t].stage = "encoded"
    /\ guard' = [guard EXCEPT ![MapOf(call[t].req)] =
                    IF @ = t THEN "none" ELSE @]
    /\ call' = [call EXCEPT ![t] = Idle]
    /\ UNCHANGED << inbound_payments, outbound_payments, maker_swaps, taker_swaps,
                    channel_ids_map, fs_store, poisoned, panicked, commands, event, now,
                    spenderVars, channelVars, recent_payments, assetVars, walletVars,
                    serviceVars >>

\* save_*: the write fails and its unwrap panics under the guard
WriteFails(t) ==
    /\ call[t].stage = "encoded"
    /\ poisoned' = IF guard[MapOf(call[t].req)] = t
                   THEN poisoned \cup {MapOf(call[t].req)} ELSE poisoned
    /\ guard' = [guard EXCEPT ![MapOf(call[t].req)] =
                    IF @ = t THEN "none" ELSE @]
    /\ call' = [call EXCEPT ![t] = Idle]
    /\ UNCHANGED << inbound_payments, outbound_payments, maker_swaps, taker_swaps,
                    channel_ids_map, fs_store, panicked, commands, event, now,
                    spenderVars, channelVars, recent_payments, assetVars, walletVars,
                    serviceVars >>

InitCallers == Started(EmptyStore)

NextCallers ==
    \/ \E t \in Threads, req \in Requests : Call(t, req)
    \/ \E t \in Threads : Encode(t)
    \/ \E t \in Threads : Write(t)
    \/ \E t \in Threads : WriteFails(t)
    \/ StartLdk({})

SpecCallers == InitCallers /\ [][NextCallers]_vars

(***************************************************************************)
(* SpecLocks: the order in which the ledger operations and the event       *)
(* handlers take and drop the guards of the ledger mutexes, run by two     *)
(* tasks at the same time.  A task that asks for a guard waits until the   *)
(* mutex is free; std::sync::Mutex is not reentrant.                       *)
(***************************************************************************)
LockOf(m) == [op |-> "lock", mutex |-> m]
DropOf(m) == [op |-> "drop", mutex |-> m]

\* a ledger operation, or a getter that clones the map: get_*() takes the
\* guard, and the guard is dropped when save_* or the getter returns
ledger_operation_locks(m) == << LockOf(m), DropOf(m) >>

\* htlc_intercepted_locks of a handler that keeps swaps_lock to its end
htlc_intercepted_locks_guard_kept(whitelisted) ==
    << LockOf("taker_swaps") >>
        \o (IF whitelisted THEN ledger_operation_locks("taker_swaps") ELSE << >>)
        \o << DropOf("taker_swaps") >>

\* Event::HTLCIntercepted: swaps_lock is taken for the whitelist lookup and
\* dropped by the return of the unknown-hash arm or by drop(swaps_lock)
\* after the validation; update_taker_swap_status follows for a whitelisted hash
htlc_intercepted_locks(whitelisted) ==
    << LockOf("taker_swaps"), DropOf("taker_swaps") >>
        \o (IF whitelisted THEN ledger_operation_locks("taker_swaps") ELSE << >>)

\* Event::ChannelClosed: both payment maps are cloned, every pending inbound
\* and outbound payment is updated by an operation of its own, and the
\* channel id is deleted
channel_closed_locks(pending_inbound, pending_outbound) ==
    ledger_operation_locks("inbound_payments")
        \o ledger_operation_locks("outbound_payments")
        \o (IF pending_inbound THEN ledger_operation_locks("inbound_payments") ELSE << >>)
        \o (IF pending_outbound THEN ledger_operation_locks("outbound_payments") ELSE << >>)
        \o ledger_operation_locks("channel_ids_map")

\* what a task may run
LockScripts ==
    { ledger_operation_locks(m) : m \in LedgerMaps }
        \cup { htlc_intercepted_locks(whitelisted) : whitelisted \in BOOLEAN }
        \cup { channel_closed_locks(i, o) : i, o \in BOOLEAN }

\* the guards the task t holds
HeldBy(t) == { m \in LockNames : guard[m] = t }

\* the task t enters an operation or a handler
Enter(t, script) ==
    /\ call[t] = Idle
    /\ call' = [call EXCEPT ![t] = [stage |-> "locks", script |-> script, pc |-> 1]]
    /\ UNCHANGED << ledgerVars, event, now, spenderVars, channelVars, recent_payments,
                    assetVars, walletVars, serviceVars, guard >>

\* the step the task t is at
AtStep(t, op) ==
    /\ call[t].stage = "locks"
    /\ call[t].script[call[t].pc].op = op

\* the task moves past its step, and returns after the last one
Advance(t) ==
    call' = [call EXCEPT ![t] =
                IF call[t].pc = Len(call[t].script) THEN Idle
                ELSE [@ EXCEPT !.pc = @ + 1]]

\* mutex.lock(): the task gets the guard once the mutex is free
Acquire(t) ==
    /\ AtStep(t, "lock")
    /\ guard[call[t].script[call[t].pc].mutex] = "none"
    /\ guard' = [guard EXCEPT ![call[t].script[call[t].pc].mutex] = t]
    /\ Advance(t)
    /\ UNCHANGED << ledgerVars, event, now, spenderVars, channelVars, recent_payments,
                    assetVars, walletVars, serviceVars >>

\* the guard goes out of scope or is dropped
Release(t) ==
    /\ AtStep(t, "drop")
    /\ guard' = [guard EXCEPT ![call[t].script[call[t].pc].mutex] = "none"]
    /\ Advance(t)
    /\ UNCHANGED << ledgerVars, event, now, spenderVars, channelVars, recent_payments,
                    assetVars, walletVars, serviceVars >>

InitLocks == Started(EmptyStore)

NextLocks ==
    \/ \E t \in Threads, script \in LockScripts : Enter(t, script)
    \/ \E t \in Threads : Acquire(t)
    \/ \E t \in Threads : Release(t)

SpecLocks == InitLocks /\ [][NextLocks]_vars

(***************************************************************************)
(* SpecChannel: the funding negotiations of two channels, opened by this   *)
(* node or by a peer, their ChannelPending, DiscardFunding and             *)
(* ChannelClosed events, and restarts.                                     *)
(***************************************************************************)
\* the events the channel manager has due
DuePending ==
    { ev \in ChannelPendingEvents :
        /\ negotiation[ev.channel_id] = "signed"
        /\ ev.former_temporary_channel_id = Some(TemporaryOf[ev.channel_id]) }

DueClosed ==
    { ev \in ChannelClosedEvents : negotiation[ev.channel_id] \in {"closing", "discarding"} }

InitChannel == Started(EmptyStore)

NextChannel ==
    \/ \E c \in ChannelIds : OpenChannel(c)
    \/ \E ev \in FundingGenerationReadyEvents :
        \E fault \in FundingFaults(ev) : FundingGenerationReady(ev, fault)
    \/ \E c \in ChannelIds : FundingSigned(c)
    \/ \E c \in ChannelIds : InboundFunded(c)
    \/ \E c \in ChannelIds : FundingAbandoned(c)
    \/ \E c \in ChannelIds : FundingTimesOut(c)
    \/ \E c \in ChannelIds : ConsignmentStored(c)
    \/ \E c \in ChannelIds : ChannelCloses(c)
    \/ \E ev \in DuePending :
        \E outcome \in ChannelPendingOutcomes(ev.channel_id \in psbt_files) :
            ChannelPending(ev, outcome)
    \/ \E ev \in DiscardFundingEvents : DiscardFunding(ev)
    \/ \E ev \in DueClosed : ChannelClosed(ev)
    \/ StartLdk({})

SpecChannel == InitChannel /\ [][NextChannel]_vars

(***************************************************************************)
(* SpecClose: the payment ledger and the channel-id map under the close of *)
(* a channel.  Payments are registered and settled while channels opened   *)
(* by a peer become pending and are closed.                                *)
(***************************************************************************)
InitClose == Started(EmptyStore)

NextClose ==
    \/ \E h \in Hashes, i \in AddedPaymentInfos : AddInboundPayment(h, i)
    \/ \E id \in PaymentIds, i \in AddedPaymentInfos : AddOutboundPayment(id, i)
    \/ \E ev \in PaymentClaimedEvents : PaymentClaimed(ev)
    \/ \E ev \in PaymentSentEvents : PaymentSent(ev)
    \/ \E c \in ChannelIds : InboundFunded(c)
    \/ \E ev \in DuePending :
        \E outcome \in ChannelPendingOutcomes(ev.channel_id \in psbt_files) :
            ChannelPending(ev, outcome)
    \/ \E c \in ChannelIds : ChannelCloses(c)
    \/ \E ev \in DueClosed : ChannelClosed(ev)

SpecClose == InitClose /\ [][NextClose]_vars

(***************************************************************************)
(* SpecSettle: the four ledger maps under the settlement events.  Maker    *)
(* and taker swaps are whitelisted under "h1", payments are registered     *)
(* under any hash, and PaymentClaimed, PaymentSent and PaymentFailed       *)
(* arrive for any hash and payment id, each claim for the full amount.     *)
(***************************************************************************)
\* the claims of the full amount
ClaimsInFull == { ev \in PaymentClaimedEvents : ev.amount_msat = MaxAmt }

InitSettle == Started(EmptyStore)

NextSettle ==
    \/ \E i \in SwapTerms : AddMakerSwap("h1", NewSwap(i))
    \/ \E i \in SwapTerms : AddTakerSwap("h1", NewSwap(i))
    \/ \E h \in Hashes, i \in AddedPaymentInfos : AddInboundPayment(h, i)
    \/ \E id \in PaymentIds, i \in AddedPaymentInfos : AddOutboundPayment(id, i)
    \/ \E ev \in ClaimsInFull : PaymentClaimed(ev)
    \/ \E ev \in PaymentSentEvents : PaymentSent(ev)
    \/ \E ev \in PaymentFailedEvents : PaymentFailed(ev)

SpecSettle == InitSettle /\ [][NextSettle]_vars

(***************************************************************************)
(* SpecAssets: the asset units of three nodes over openings of a colored   *)
(* channel, keysends over it, its close, and direct sends.                 *)
(***************************************************************************)
InitAssets == Started(EmptyStore)

NextAssets ==
    \/ \E opener, acceptor \in Nodes, amount \in ChannelAmounts :
            OpenColoredChannel(opener, acceptor, amount)
    \/ \E h \in Hashes, from \in Nodes, amount \in KeysendAmounts : Keysend(h, from, amount)
    \/ \E h \in Hashes : NodePaymentClaimed(h)
    \/ \E h \in Hashes : NodePaymentSent(h)
    \/ CloseChannel
    \/ \E from, to \in Nodes, amount \in SendAmounts : SendAsset(from, to, amount)

SpecAssets == InitAssets /\ [][NextAssets]_vars

(***************************************************************************)
(* SpecSpend: the colored output spender under repeated sweeps of the      *)
(* batches, failures of the outside world, crashes and restarts.  The      *)
(* batches: one asset output, a plain and an asset output, two outputs of  *)
(* one asset, outputs of two assets, and plain outputs only.               *)
(***************************************************************************)
SweptBatches ==
    { Batch(<< "t2" >>), Batch(<< "t1", "t2" >>), Batch(<< "t2", "t3" >>),
      Batch(<< "t2", "t4" >>), Batch(<< "t1" >>), Batch(<< "t5" >>) }

InitSpend == Started(EmptyStore)

NextSpend ==
    \/ \E d \in SweptBatches :
        \E o \in SweeperOutputs, c \in ConsignmentOrders(BatchAssets(d)), f \in Faults(d) :
            SpendSpendableOutputs(d, o, c, f)
    \/ StartLdk({})

SpecSpend == InitSpend /\ [][NextSpend]_vars

(***************************************************************************)
(* SpecColor: the colored output spender called with any list of outputs.  *)
(* The batches: three outputs of two assets with the first asset seen      *)
(* again after the second, the two assets in the other order, a plain and  *)
(* an asset output, two outputs of one asset whose amounts do not fit the  *)
(* accumulator together, a plain output, and an output whose record has a  *)
(* zero amount.                                                            *)
(***************************************************************************)
ColoredBatches ==
    { Batch(<< "t2", "t4", "t3" >>), Batch(<< "t4", "t2" >>),
      Batch(<< "t1", "t2" >>), Batch(<< "t2", "t6" >>), Batch(<< "t1" >>),
      Batch(<< "t5" >>) }

\* the wallet, the proxy and the signer serve every call but the chain
\* lookup, and the build may check the additions
ColorFaults(d) ==
    { f \in Faults(d) : f.kind \in {"none", "get_tx_height_err", "overflow_panic"} }

InitColor == Started(EmptyStore)

NextColor ==
    \/ \E d \in ColoredBatches :
        \E o \in CallerOutputs, c \in ConsignmentOrders(BatchAssets(d)), f \in ColorFaults(d) :
            SpendSpendableOutputs(d, o, c, f)
    \/ StartLdk({})

SpecColor == InitColor /\ [][NextColor]_vars

(***************************************************************************)
(* The swap validator's claims (SpecValidate).                             *)
(***************************************************************************)
IsHTLC == event.type = "HTLCIntercepted"

\* the event's payment hash is a key of the taker swap map
Whitelisted == IsHTLC /\ event.payment_hash \in DOMAIN taker_swaps

WhitelistSwap == taker_swaps[event.payment_hash]

FailCommand == [cmd |-> "fail", intercept_id |-> event.intercept_id]

ForwardCommand ==
    [ cmd |-> "forward", intercept_id |-> event.intercept_id,
      next_hop_scid |-> event.requested_next_hop_scid,
      amt_to_forward_msat |-> event.expected_outbound_amount_msat,
      amt_to_forward_rgb |-> event.expected_outbound_rgb_amount ]

ForwardIssued == \E i \in DOMAIN commands : commands[i].cmd = "forward"

\* the handler accepted: the swap is Pending and the forward command was issued
Accepted == WhitelistSwap.status = "Pending" /\ commands = << ForwardCommand >>

\* the handler rejected: the swap is Failed and the HTLC failed, nothing forwarded
Rejected == WhitelistSwap.status = "Failed" /\ commands = << FailCommand >>

FromBtcCase == Whitelisted /\ event.is_swap /\ WhitelistSwap.swap_info.kind = "FromBtc"

ToBtcCase == Whitelisted /\ event.is_swap /\ WhitelistSwap.swap_info.kind = "ToBtc"

\* C1 as stated: the asset amount and the contract id are those of the OUTBOUND leg
C1_Match_OutboundLeg ==
    /\ checked_sub(event.expected_outbound_amount_msat, event.inbound_amount_msat)
            = Some(WhitelistSwap.swap_info.qty_from)
    /\ event.expected_outbound_rgb_amount = Some(WhitelistSwap.swap_info.qty_to)
    /\ event.outbound_rgb_info = WhitelistSwap.swap_info.to_asset

\* C1 (original statement): a swap-flagged HTLC of a whitelisted From-Bitcoin
\* swap is accepted if and only if the checked difference
\* expected_outbound_msat - inbound_msat equals qty_from, the asset amount on
\* the outbound leg equals qty_to and the outbound-leg channel's contract id
\* equals to_asset.
C1_Original ==
    FromBtcCase => (Accepted <=> C1_Match_OutboundLeg)

\* the three conditions the code tests: the asset amount and contract id of the INBOUND leg
C1_Match_InboundLeg ==
    /\ checked_sub(event.expected_outbound_amount_msat, event.inbound_amount_msat)
            = Some(WhitelistSwap.swap_info.qty_from)
    /\ event.inbound_rgb_amount = Some(WhitelistSwap.swap_info.qty_to)
    /\ event.inbound_rgb_info = WhitelistSwap.swap_info.to_asset

\* C1 (amended): a swap-flagged HTLC of a whitelisted From-Bitcoin swap is
\* accepted (swap Pending, one forward command) if and only if the checked
\* difference expected_outbound_msat - inbound_msat equals qty_from (an
\* underflow is a mismatch), the inbound asset amount of the HTLC equals
\* qty_to and the inbound-leg channel's contract id equals to_asset; any
\* partial match is rejected (swap Failed, one fail command).
C1_FromBtcAcceptIff ==
    FromBtcCase =>
        /\ Accepted <=> C1_Match_InboundLeg
        /\ ~C1_Match_InboundLeg => Rejected

\* a From-Bitcoin swap of a positive asset quantity for a positive price was
\* accepted on an HTLC whose outbound leg carries no asset
C1_Witness ==
    /\ FromBtcCase
    /\ Accepted
    /\ WhitelistSwap.swap_info.to_asset # None
    /\ WhitelistSwap.swap_info.qty_to > 0
    /\ WhitelistSwap.swap_info.qty_from > 0
    /\ event.expected_outbound_rgb_amount = None
    /\ event.outbound_rgb_info = None

\* C8: a swap-flagged HTLC whose payment hash is not a key of the taker swap
\* map gets exactly one fail command and no forward command, and the maker and
\* taker swap maps are left unchanged.
C8_UnknownSwapFailed ==
    [][ (event'.type = "HTLCIntercepted" /\ event'.is_swap
            /\ event'.payment_hash \notin DOMAIN taker_swaps)
        => /\ commands' = << [cmd |-> "fail", intercept_id |-> event'.intercept_id] >>
           /\ UNCHANGED << maker_swaps, taker_swaps >> ]_vars

\* an unknown hash was failed while another swap is whitelisted
C8_Witness ==
    /\ IsHTLC /\ event.is_swap
    /\ event.payment_hash \notin DOMAIN taker_swaps
    /\ DOMAIN taker_swaps # {}
    /\ commands = << FailCommand >>

\* C9: an HTLC without the swap flag is failed and its handling ends there:
\* the only command is the fail, and no taker swap record changes.
C9_NotSwapEndsThere ==
    [][ (event'.type = "HTLCIntercepted" /\ ~event'.is_swap)
        => /\ commands' = << [cmd |-> "fail", intercept_id |-> event'.intercept_id] >>
           /\ UNCHANGED taker_swaps ]_vars

\* C10 as stated: the asset amount and the contract id are those of the INBOUND leg
C10_Match_InboundLeg ==
    /\ saturating_sub(event.inbound_amount_msat, event.expected_outbound_amount_msat)
            = WhitelistSwap.swap_info.qty_to
    /\ event.inbound_rgb_amount = Some(WhitelistSwap.swap_info.qty_from)
    /\ event.inbound_rgb_info = WhitelistSwap.swap_info.from_asset

\* C10 (original statement): a swap-flagged HTLC of a whitelisted To-Bitcoin
\* swap is accepted if and only if inbound_msat - expected_outbound_msat,
\* clamped at zero, equals qty_to, the inbound-leg asset amount equals qty_from
\* and the inbound-leg channel's contract id equals from_asset.
C10_Original ==
    ToBtcCase => (Accepted <=> C10_Match_InboundLeg)

\* the three conditions the code tests: the asset amount and contract id of the OUTBOUND leg
C10_Match_OutboundLeg ==
    /\ saturating_sub(event.inbound_amount_msat, event.expected_outbound_amount_msat)
            = WhitelistSwap.swap_info.qty_to
    /\ event.expected_outbound_rgb_amount = Some(WhitelistSwap.swap_info.qty_from)
    /\ event.outbound_rgb_info = WhitelistSwap.swap_info.from_asset

\* C10 (amended): a swap-flagged HTLC of a whitelisted To-Bitcoin swap is
\* accepted if and only if inbound_msat - expected_outbound_msat, clamped at
\* zero, equals qty_to, the expected outbound asset amount equals qty_from and
\* the outbound-leg channel's contract id equals from_asset; otherwise it is
\* rejected.
C10_ToBtcAcceptIff ==
    ToBtcCase =>
        /\ Accepted <=> C10_Match_OutboundLeg
        /\ ~C10_Match_OutboundLeg => Rejected

\* a To-Bitcoin swap with qty_to = 0 was accepted on an HTLC whose outbound
\* amount exceeds the inbound one (the clamped case)
C10_Witness ==
    /\ ToBtcCase
    /\ Accepted
    /\ WhitelistSwap.swap_info.from_asset # None
    /\ WhitelistSwap.swap_info.qty_from > 0
    /\ event.inbound_amount_msat < event.expected_outbound_amount_msat
    /\ WhitelistSwap.swap_info.qty_to = 0
    /\ event.inbound_rgb_amount = None

AssetForAssetCase ==
    Whitelisted /\ event.is_swap /\ WhitelistSwap.swap_info.kind = "AssetForAsset"

\* the five conditions of the asset-for-asset branch
C11_Match_BothLegs ==
    /\ event.inbound_amount_msat = event.expected_outbound_amount_msat
    /\ event.inbound_rgb_amount = Some(WhitelistSwap.swap_info.qty_to)
    /\ event.inbound_rgb_info = WhitelistSwap.swap_info.to_asset
    /\ event.expected_outbound_rgb_amount = Some(WhitelistSwap.swap_info.qty_from)
    /\ event.outbound_rgb_info = WhitelistSwap.swap_info.from_asset

\* an asset amount is missing on a leg, or the channel of a leg whose asset
\* the swap names has no allocation
C11_MissingOnALeg ==
    \/ event.inbound_rgb_amount = None
    \/ event.expected_outbound_rgb_amount = None
    \/ (event.inbound_rgb_info = None /\ WhitelistSwap.swap_info.to_asset # None)
    \/ (event.outbound_rgb_info = None /\ WhitelistSwap.swap_info.from_asset # None)

\* C11: a swap-flagged HTLC of a whitelisted asset-for-asset swap is accepted
\* (swap Pending, one forward command) if and only if inbound_msat equals
\* expected_outbound_msat, the inbound leg carries the amount qty_to of the
\* contract to_asset and the outbound leg carries the amount qty_from of the
\* contract from_asset; otherwise it is rejected (swap Failed, one fail
\* command), and a missing asset amount or a missing allocation on either leg
\* is a mismatch.
C11_AssetForAssetAcceptIff ==
    AssetForAssetCase =>
        /\ Accepted <=> C11_Match_BothLegs
        /\ ~C11_Match_BothLegs => Rejected
        /\ C11_MissingOnALeg => Rejected

\* an asset-for-asset swap between two different contracts, of positive
\* quantities, was accepted on an HTLC that moves a positive msat amount
C11_Witness ==
    /\ AssetForAssetCase
    /\ Accepted
    /\ WhitelistSwap.swap_info.from_asset # None
    /\ WhitelistSwap.swap_info.to_asset # None
    /\ WhitelistSwap.swap_info.from_asset # WhitelistSwap.swap_info.to_asset
    /\ WhitelistSwap.swap_info.qty_from > 0
    /\ WhitelistSwap.swap_info.qty_to > 0
    /\ event.inbound_amount_msat > 0

\* the commands of the log that name the intercept id
CommandsFor(log, intercept_id) ==
    { i \in DOMAIN log : log[i].intercept_id = intercept_id }

\* the handled HTLC is of a whitelisted swap whose terms it does not match
MismatchHandled ==
    /\ event'.type = "HTLCIntercepted"
    /\ event'.payment_hash \in DOMAIN taker_swaps
    /\ SwapFail(event', taker_swaps[event'.payment_hash].swap_info)

\* C21: when the intercepted HTLC of a whitelisted taker swap does not match
\* the swap's terms, the swap is marked Failed, the handler's last command is
\* the fail command for the intercept id, no forward command is issued for
\* it, and the handler ends there: no other record changes,
\* and a swap-flagged HTLC gets that one command and no other.
C21_MismatchRejected ==
    [][ MismatchHandled =>
          /\ taker_swaps'[event'.payment_hash].status = "Failed"
          /\ taker_swaps'[event'.payment_hash].swap_info
                = taker_swaps[event'.payment_hash].swap_info
          /\ \A h \in DOMAIN taker_swaps' \ {event'.payment_hash} :
                taker_swaps'[h] = taker_swaps[h]
          /\ UNCHANGED << maker_swaps, inbound_payments, outbound_payments >>
          /\ commands' # << >>
          /\ commands'[Len(commands')] =
                [cmd |-> "fail", intercept_id |-> event'.intercept_id]
          /\ \A i \in CommandsFor(commands', event'.intercept_id) :
                commands'[i].cmd = "fail"
          /\ event'.is_swap => Len(commands') = 1
          /\ ~panicked' ]_vars

\* a swap that was Waiting was failed on an HTLC whose amounts match but whose
\* contract id does not
C21_Witness ==
    /\ Whitelisted /\ event.is_swap
    /\ SwapFail(event, WhitelistSwap.swap_info)
    /\ WhitelistSwap.status = "Failed"
    /\ commands = << FailCommand >>
    /\ WhitelistSwap.swap_info.kind = "FromBtc"
    /\ event.inbound_rgb_amount = Some(WhitelistSwap.swap_info.qty_to)
    /\ event.inbound_rgb_info # WhitelistSwap.swap_info.to_asset

\* an HTLC was handled and a forward command was issued
ForwardHandled ==
    /\ event'.type = "HTLCIntercepted"
    /\ \E i \in DOMAIN commands' : commands'[i].cmd = "forward"

\* C22: every forward command of the HTLCIntercepted handler carries the
\* intercept id, the requested next-hop short channel id, the
\* expected_outbound_amount_msat and the expected_outbound_rgb_amount of the
\* event that caused it, whatever the swap record holds; it is the handler's
\* only forward command, and the swap is Pending when it has been issued.
C22_ForwardCarriesEvent ==
    [][ ForwardHandled =>
          /\ \A i \in DOMAIN commands' :
                commands'[i].cmd = "forward" =>
                    /\ i = Len(commands')
                    /\ commands'[i] =
                        [ cmd |-> "forward",
                          intercept_id |-> event'.intercept_id,
                          next_hop_scid |-> event'.requested_next_hop_scid,
                          amt_to_forward_msat |-> event'.expected_outbound_amount_msat,
                          amt_to_forward_rgb |-> event'.expected_outbound_rgb_amount ]
          /\ event'.payment_hash \in DOMAIN taker_swaps'
          /\ taker_swaps'[event'.payment_hash].status = "Pending" ]_vars

\* a forward command was issued whose asset amount differs from the quantity
\* of the swap record
C22_Witness ==
    /\ Whitelisted /\ event.is_swap
    /\ commands = << ForwardCommand >>
    /\ WhitelistSwap.status = "Pending"
    /\ WhitelistSwap.swap_info.to_asset # None
    /\ event.expected_outbound_rgb_amount # Some(WhitelistSwap.swap_info.qty_to)

\* C23: on every path of the HTLCIntercepted handler, the one of the unknown
\* hash included, the guard of the taker swap map has been dropped when the
\* forward or fail command is issued.
C23_LockDroppedBeforeCommand ==
    [][ (event'.type = "HTLCIntercepted" /\ commands' # << >>)
            => swaps_lock_at_command(St, event') = {} ]_vars

(***************************************************************************)
(* The channel-id map's claims (SpecChannel).                              *)
(***************************************************************************)
\* a step that handles ChannelClosed or DiscardFunding for the channel c
ClosingStep(c) ==
    \/ \E ev \in ChannelClosedEvents : ev.channel_id = c /\ ChannelClosed(ev)
    \/ \E ev \in DiscardFundingEvents : ev.channel_id = c /\ DiscardFunding(ev)

\* the temporary ids that resolve to the final id c
ResolvingTo(map, c) == {t \in DOMAIN map : map[t] = c}

\* C12: handling ChannelClosed or DiscardFunding for the channel c leaves no
\* entry of the channel-id map whose final id is c (the temporary id that
\* ChannelPending recorded for c resolves to nothing), leaves the entries of
\* the other channels as they were, and the persisted map equals the
\* in-memory map.
C12_MappingRemoved ==
    [][ \A c \in ChannelIds :
            ClosingStep(c) =>
                /\ ResolvingTo(channel_ids_map', c) = {}
                /\ \A t \in DOMAIN channel_ids_map :
                        channel_ids_map[t] # c
                            => /\ t \in DOMAIN channel_ids_map'
                               /\ channel_ids_map'[t] = channel_ids_map[t]
                /\ DOMAIN channel_ids_map' \subseteq DOMAIN channel_ids_map
                /\ fs_store'.channel_ids_map = channel_ids_map' ]_vars

\* the channel c1, opened by a peer, went through ChannelPending and its
\* ChannelClosed was handled: its mapping is gone and that of c2 is kept
C12_Witness ==
    /\ negotiation["c1"] = "closing"
    /\ "c1" \notin psbt_files
    /\ ResolvingTo(channel_ids_map, "c1") = {}
    /\ ResolvingTo(channel_ids_map, "c2") = {TemporaryOf["c2"]}
    /\ fs_store.channel_ids_map = channel_ids_map
    /\ ~panicked

\* the funding negotiation that the open request of c started has not ended
InFlight(c) == negotiation[c] \in {"opening", "funded"}

\* a step that handles a ChannelPending or a DiscardFunding of the channel c
LockEventOf(c) ==
    \/ \E ev \in ChannelPendingEvents :
        /\ ev.channel_id = c
        /\ \E outcome \in ChannelPendingOutcomes(c \in psbt_files) :
                ChannelPending(ev, outcome)
    \/ \E ev \in DiscardFundingEvents : ev.channel_id = c /\ DiscardFunding(ev)

\* C16: while the open request of a channel holds the send-lock (the lock is
\* set and the negotiation of the channel has not ended), no ChannelPending
\* and no DiscardFunding of another channel clears the lock.
C16_LockNotClearedByOthers ==
    [][ \A a, b \in ChannelIds :
            (a # b /\ rgb_send_lock /\ InFlight(a) /\ LockEventOf(b))
                => rgb_send_lock' ]_vars

\* the place of an effect in the log, 0 when the log does not hold it
PlaceOf(log, effect) ==
    IF Did(log, effect)
    THEN CHOOSE i \in DOMAIN log :
            log[i].effect = effect /\ \A j \in 1 .. (i - 1) : log[j].effect # effect
    ELSE 0

\* a step that handles the ChannelPending that is due for the channel c
PendingStep(c) ==
    \E ev \in DuePending :
        /\ ev.channel_id = c
        /\ \E outcome \in ChannelPendingOutcomes(c \in psbt_files) :
                ChannelPending(ev, outcome)

\* C28: on ChannelPending the handler is in sender role if and only if the
\* signed funding transaction is stored for the funding: then it finalizes
\* and broadcasts the transaction and after that releases the send-lock; in
\* acceptor role nothing is broadcast and the send-lock is left as it is.  In
\* both roles the mapping from the temporary to the final id is recorded
\* before anything else is done.
C28_RoleByStoredFunding ==
    [][ \A c \in ChannelIds :
            (PendingStep(c) /\ ~panicked') =>
                /\ effects' # << >>
                /\ effects'[1] = [effect |-> "add_channel_id", channel_id |-> c]
                /\ channel_ids_map'[TemporaryOf[c]] = c
                /\ fs_store'.channel_ids_map = channel_ids_map'
                /\ Did(effects', "broadcast") <=> c \in psbt_files
                /\ c \in psbt_files =>
                        /\ effects' = EffectsOn(c, << "add_channel_id", "broadcast",
                                                      "release_send_lock" >>)
                        /\ ~rgb_send_lock'
                /\ c \notin psbt_files =>
                        /\ ~Did(effects', "release_send_lock")
                        /\ rgb_send_lock' = rgb_send_lock ]_vars

\* both roles were played: the funding of the channel of the last event was
\* broadcast and the lock released, and another channel, funded by a peer,
\* is pending with its mapping recorded
C28_Witness ==
    /\ effects = EffectsOn("c1", << "add_channel_id", "broadcast", "release_send_lock" >>)
    /\ negotiation = [c1 |-> "pending", c2 |-> "pending"]
    /\ psbt_files = {"c1"}
    /\ channel_ids_map = [tmp1 |-> "c1", tmp2 |-> "c2"]
    /\ ~rgb_send_lock
    /\ ~panicked

\* C29: on ChannelPending in acceptor role, without a consignment stored for
\* the funding the handler returns having recorded the mapping only, and no
\* asset is registered; with a consignment the asset is registered if it is
\* unknown, and if it is registered already the handler returns without a
\* panic and the registered assets are unchanged (the wallet failing for
\* another reason aside).
C29_AcceptorRegistersAsset ==
    [][ \A ev \in DuePending :
          \A outcome \in ChannelPendingOutcomes(FALSE) :
            (/\ ev.channel_id \notin psbt_files
             /\ "channel_ids_map" \notin poisoned
             /\ ChannelPending(ev, outcome)) =>
                LET c == ev.channel_id
                    contract_id == ConsignmentAsset[ev.channel_id]
                IN  /\ channel_ids_map'[TemporaryOf[c]] = c
                    /\ c \notin consignment_files =>
                            /\ effects' = EffectsOn(c, << "add_channel_id" >>)
                            /\ UNCHANGED wallet_assets
                            /\ ~panicked'
                    /\ (c \in consignment_files /\ outcome # "save_asset_panic") =>
                            /\ ~panicked'
                            /\ IF contract_id \in wallet_assets
                               THEN /\ UNCHANGED wallet_assets
                                    /\ effects' = EffectsOn(c, << "add_channel_id" >>)
                               ELSE /\ wallet_assets' = wallet_assets \cup {contract_id}
                                    /\ effects' = EffectsOn(c, << "add_channel_id",
                                                                  "rgb_save_new_asset" >>)
                    /\ outcome = "save_asset_panic" =>
                            /\ panicked'
                            /\ UNCHANGED wallet_assets ]_vars

\* the asset of the consignment of c1 was registered, and the ChannelPending
\* of c2, whose consignment carries the same asset, returned
C29_Witness ==
    /\ negotiation = [c1 |-> "pending", c2 |-> "pending"]
    /\ consignment_files = {"c1", "c2"}
    /\ psbt_files = {}
    /\ wallet_assets = {"rgb1"}
    /\ effects = EffectsOn("c2", << "add_channel_id" >>)
    /\ ~panicked

\* a step that handles the FundingGenerationReady of the channel c, colored
ColoredFundingStep(c, fault) ==
    \E ev \in FundingGenerationReadyEvents :
        /\ ev.is_colored
        /\ ChannelOf(ev.temporary_channel_id) = c
        /\ FundingGenerationReady(ev, fault)

\* C30: FundingGenerationReady for a colored channel issues the
\* funding-generated command only after the signed transaction has been
\* written under its id and the consignment has been posted with success;
\* when the post fails the handler returns without the command and without
\* a second post, and the channel is left unfunded.
C30_CommandAfterPost ==
    [][ \A c \in ChannelIds :
          \A fault \in {"none", "begin_panic", "channel_gone", "post_error"} :
            ColoredFundingStep(c, fault) =>
                /\ Did(effects', "funding_transaction_generated") =>
                        /\ 0 < PlaceOf(effects', "write_psbt")
                        /\ PlaceOf(effects', "write_psbt")
                                < PlaceOf(effects', "post_consignment")
                        /\ PlaceOf(effects', "post_consignment")
                                < PlaceOf(effects', "funding_transaction_generated")
                        /\ c \in psbt_files'
                /\ fault = "post_error" =>
                        /\ effects' = EffectsOn(c, << "write_psbt" >>)
                        /\ negotiation'[c] = "unfunded"
                        /\ ~panicked' ]_vars

\* the funding of c2 went through to ChannelPending, and then the colored
\* funding of c1 ended at a failed post: its psbt is written, the channel is
\* unfunded and the send-lock of its open request is still set
C30_Witness ==
    /\ negotiation = [c1 |-> "unfunded", c2 |-> "pending"]
    /\ psbt_files = {"c1", "c2"}
    /\ effects = EffectsOn("c1", << "write_psbt" >>)
    /\ rgb_send_lock
    /\ ~panicked

\* a handler that releases the send-lock is still to run for the channel c:
\* its FundingGenerationReady has not returned, or its funding was handed
\* to the channel manager, so that either ChannelPending will find the psbt
\* file or DiscardFunding will follow
ReleaseDue(c) ==
    \/ negotiation[c] \in {"opening", "funded", "discarding"}
    \/ negotiation[c] = "signed" /\ c \in psbt_files

\* C38: the send-lock never stays set with nothing left to release it:
\* whenever it is set, the funding negotiation of some channel is still on
\* a way that ends in a handler that releases it, whichever way the
\* negotiation it was taken for has gone, a failed post of the consignment
\* and a funding transaction that found the channel gone included.
C38_LockReleaseDue ==
    rgb_send_lock => \E c \in ChannelIds : ReleaseDue(c)

(***************************************************************************)
(* The swap maps' claims (SpecLedger).                                     *)
(***************************************************************************)
\* C15: the maker and the taker swap maps are disjoint: after any sequence of
\* add_maker_swap, add_taker_swap and status updates, no payment hash is a
\* key of both maps.
C15_MapsDisjoint == (DOMAIN maker_swaps) \cap (DOMAIN taker_swaps) = {}

\* C18: a request to set a swap's status to Waiting is an invariant
\* violation: update_maker_swap_status and update_taker_swap_status panic
\* for Waiting whatever the swap's current status is, and the failed call
\* changes neither the in-memory records (status, initiated_at,
\* completed_at) nor the persisted maps.
C18_WaitingPanics ==
    [][ \A h \in Hashes :
            /\ update_maker_swap_status(St, h, "Waiting").panicked
            /\ update_taker_swap_status(St, h, "Waiting").panicked
            /\ UpdateMakerSwapStatus(h, "Waiting")
                    => /\ maker_swaps' = maker_swaps
                       /\ taker_swaps' = taker_swaps
                       /\ fs_store' = fs_store
            /\ UpdateTakerSwapStatus(h, "Waiting")
                    => /\ maker_swaps' = maker_swaps
                       /\ taker_swaps' = taker_swaps
                       /\ fs_store' = fs_store ]_vars

\* both mutexes are poisoned while every payment hash is in both maps, so
\* the panics came from requests for Waiting and not from a missing record;
\* the swaps had left Waiting before, and the store still equals the maps
C18_Witness ==
    /\ {"maker_swaps", "taker_swaps"} \subseteq poisoned
    /\ DOMAIN maker_swaps = Hashes
    /\ DOMAIN taker_swaps = Hashes
    /\ maker_swaps["h1"].status = "Succeeded"
    /\ maker_swaps["h2"].status = "Pending"
    /\ taker_swaps["h1"].status = "Expired"
    /\ taker_swaps["h2"].status = "Failed"
    /\ fs_store.maker_swaps = maker_swaps
    /\ fs_store.taker_swaps = taker_swaps

(***************************************************************************)
(* The shutdown's claims (SpecStop).                                       *)
(***************************************************************************)
\* the acceptor and the chain poller leave at their first poll point after
\* the stop flag is set
AcceptorAndPollerExit ==
    [][ stop_processing =>
            /\ (\E peer \in ChannelIds \cup {"other"} : AcceptorAccepts(peer))
                    => loops'.acceptor = "exited"
            /\ ChainPollerChecks => loops'.chain_poller = "exited" ]_vars

\* C19: after stop_ldk has set the shared stop flag and signalled the
\* background processor, each background loop (acceptor, chain poller,
\* reconnect loop) exits at its next poll point, in every state of the node:
\* the acceptor at the next connection it accepts, the chain poller at the
\* top of its next iteration, the reconnect loop in the iteration of its
\* next tick, with or without a channel whose peer is disconnected.
C19_LoopsExitAtPollPoint ==
    [][ stop_processing =>
            /\ (\E peer \in ChannelIds \cup {"other"} : AcceptorAccepts(peer))
                    => loops'.acceptor = "exited"
            /\ ChainPollerChecks => loops'.chain_poller = "exited"
            /\ (\E read_ok \in BOOLEAN, reached \in SUBSET ChannelIds :
                    ReconnectScans(read_ok, reached))
                    => loops'.reconnect = "exited" ]_vars

\* C20: stop_ldk declares the node stopped only after the listening port
\* has been observed free: it returns only when the background processor has
\* ended and a bind on the peer port has succeeded in that pass of the wait;
\* a pass that finds the port taken after more than PortWaitSecs seconds
\* panics, no pass goes on beyond that time, and a stop_ldk that has
\* panicked does not return.
C20_StoppedOnlyAfterPortFree ==
    [][ /\ shutdown'.pc = "stopped" /\ shutdown.pc # "stopped"
            => /\ shutdown.pc = "polling"
               /\ loops.acceptor = "exited"
               /\ background_processor \in {"finished", "failed"}
        /\ \A secs \in SleepSecs :
            PollPeerPort(secs) /\ loops.acceptor # "exited"
                => shutdown'.pc =
                        IF shutdown.elapsed + secs > PortWaitSecs
                        THEN "panicked" ELSE "polling"
        /\ shutdown'.pc = "polling" => shutdown'.elapsed <= PortWaitSecs
        /\ shutdown.pc = "panicked" => shutdown'.pc \in {"panicked", "idle"} ]_vars

\* stop_ldk has returned after it found the port taken in the first passes
\* of the wait and free in a later one, the background processor having
\* finished on the exit signal
C20_Witness ==
    /\ shutdown.pc = "stopped"
    /\ shutdown.elapsed >= 3
    /\ loops.acceptor = "exited"
    /\ background_processor = "finished"

(***************************************************************************)
(* The concurrent callers' claims (SpecCallers).                           *)
(***************************************************************************)
\* the maps no operation removes a key from
GrowingMaps == LedgerMaps \ {"channel_ids_map"}

\* C17: ledger write-through: when a public mutation of a ledger map
\* returns, the persisted blob of that map equals its content in memory and
\* was written as one snapshot of the whole map; under concurrent mutations
\* of the same map no update is lost (a key that was inserted stays in the
\* map and in its blob, and whenever a map's guard is free and its mutex is
\* sound the blob equals the map); the call changes no other map, in memory
\* or persisted.
C17_WriteThrough ==
    [][ /\ \A t \in Threads :
            Write(t) =>
                LET m == MapOf(call[t].req)
                IN  /\ fs_store'[m] = Memory'[m]
                    /\ fs_store'[m] = call[t].blob[1]
                    /\ call[t].req.op \in {"add_maker_swap", "add_outbound_payment",
                                           "upsert_inbound_payment"}
                            => call[t].req.key \in DOMAIN fs_store'[m]
                    /\ \A other \in LedgerMaps \ {m} :
                            /\ fs_store'[other] = fs_store[other]
                            /\ Memory'[other] = Memory[other]
        /\ \A t \in Threads, req \in Requests :
            Call(t, req) =>
                /\ fs_store' = fs_store
                /\ \A other \in LedgerMaps \ {MapOf(req)} :
                        Memory'[other] = Memory[other]
        /\ \A m \in GrowingMaps : DOMAIN fs_store[m] \subseteq DOMAIN fs_store'[m]
        /\ \A m \in LedgerMaps :
            guard'[m] = "none" /\ m \notin poisoned' => fs_store'[m] = Memory'[m] ]_vars

\* one caller has returned from the second insertion into the maker map,
\* which holds both swaps in memory and in its blob, while the other caller is
\* inside an operation on the outbound payments, changed in memory and not
\* written yet
C17_Witness ==
    /\ call["t1"] = Idle
    /\ DOMAIN maker_swaps = Hashes
    /\ maker_swaps["h1"].status = "Pending"
    /\ fs_store.maker_swaps = maker_swaps
    /\ "maker_swaps" \notin poisoned
    /\ call["t2"].stage = "encoded"
    /\ guard["outbound_payments"] = "t2"
    /\ fs_store.outbound_payments # outbound_payments

\* C24: no guard of a ledger map or of the channel-id map is held while the
\* map is being written to the store: a caller whose encoded map is on its way
\* to the store does not hold the guard of that map.
C24_NoGuardDuringWrite ==
    \A t \in Threads :
        call[t].stage = "encoded" => guard[MapOf(call[t].req)] # t

(***************************************************************************)
(* The asset accounting's claims (SpecAssets).                             *)
(***************************************************************************)
WalletTotal == balance["node1"] + balance["node2"] + balance["node3"]

\* the units held in the colored channel: the local amounts of its two sides
ChannelHeld ==
    IF rgb_channel = None THEN 0
    ELSE rgb_channel[1].local[rgb_channel[1].opener]
            + rgb_channel[1].local[rgb_channel[1].acceptor]

RECURSIVE SumOfPayments(_, _)
SumOfPayments(payments, hashes) ==
    IF hashes = {} THEN 0
    ELSE LET h == CHOOSE x \in hashes : TRUE
         IN  payments[h].amount + SumOfPayments(payments, hashes \ {h})

\* the units the node n sent and received over the channel
SentBy(n) ==
    SumOfPayments(rgb_payments, {h \in DOMAIN rgb_payments : rgb_payments[h].from = n})

ReceivedBy(n) ==
    SumOfPayments(rgb_payments, {h \in DOMAIN rgb_payments : rgb_payments[h].to = n})

TerminalPayment(payments, k) ==
    k \in DOMAIN payments /\ payments[k].status \in {"Succeeded", "Failed"}

\* C4: payment status is monotone: in no step does an inbound or outbound
\* payment record whose status is Succeeded or Failed get the status Pending.
C4_NeverReopened ==
    [][ /\ \A h \in Hashes :
            (TerminalPayment(inbound_payments, h) /\ h \in DOMAIN inbound_payments')
                => inbound_payments'[h].status # "Pending"
        /\ \A id \in PaymentIds :
            (TerminalPayment(outbound_payments, id) /\ id \in DOMAIN outbound_payments')
                => outbound_payments'[id].status # "Pending" ]_vars

\* a step of the event-handling task (a dispatcher event), not a ledger call
\* of another caller and not a restart
DispatcherStep ==
    \/ \E ev \in PaymentClaimedEvents : PaymentClaimed(ev)
    \/ \E ev \in PaymentSentEvents : PaymentSent(ev)
    \/ \E ev \in PaymentFailedEvents : PaymentFailed(ev)
    \/ \E ev \in InvoiceRequestFailedEvents : InvoiceRequestFailed(ev)
    \/ \E ev \in ChannelClosedEvents : ChannelClosed(ev)

\* the outbound map after the reconciliation against the listing `recent`:
\* exactly the Pending payments whose id is not listed are Failed, with their
\* other fields kept, and every other record is as it was
Reconciled(payments, recent) ==
    [id \in DOMAIN payments |->
        IF payments[id].status = "Pending" /\ id \notin recent
        THEN [payments[id] EXCEPT !.status = "Failed"]
        ELSE payments[id]]

\* C13: the reconciliation of start_ldk marks Failed exactly the outbound
\* payments that are Pending and whose id is absent from the listing of
\* recent payments, leaves the listed Pending payments and every Succeeded or
\* Failed payment unchanged, writes the result through, and a second
\* reconciliation with the same listing changes nothing.
C13_Reconciliation ==
    [][ \A recent \in SUBSET PaymentIds :
            StartLdk(recent) =>
                /\ outbound_payments' = Reconciled(fs_store.outbound_payments, recent)
                /\ fs_store'.outbound_payments = outbound_payments'
                /\ inbound_payments' = fs_store.inbound_payments
                /\ LET again == fail_outbound_pending_payments(
                                    [St EXCEPT !.outbound_payments = outbound_payments',
                                               !.fs_store = fs_store',
                                               !.poisoned = poisoned'],
                                    recent)
                   IN  /\ again.outbound_payments = outbound_payments'
                       /\ again.fs_store = fs_store'
                       /\ ~again.panicked ]_vars

\* after a restart whose listing holds h1 only, the outbound payment h2 is
\* Failed and the outbound payment h1 is still Pending
C13_Witness ==
    /\ recent_payments = {"h1"}
    /\ DOMAIN outbound_payments = {"h1", "h2"}
    /\ outbound_payments["h1"].status = "Pending"
    /\ outbound_payments["h2"].status = "Failed"
    /\ outbound_payments["h2"].preimage = None
    /\ fs_store.outbound_payments = outbound_payments
    /\ ~panicked

\* C5: a payment record in a terminal status never leaves it under the
\* dispatcher events: a Failed record is not turned into Succeeded and a
\* Succeeded record is not turned into Failed.
C5_TerminalStays ==
    [][ DispatcherStep =>
        /\ \A h \in Hashes :
            TerminalPayment(inbound_payments, h)
                => /\ h \in DOMAIN inbound_payments'
                   /\ inbound_payments'[h].status = inbound_payments[h].status
        /\ \A id \in PaymentIds :
            TerminalPayment(outbound_payments, id)
                => /\ id \in DOMAIN outbound_payments'
                   /\ outbound_payments'[id].status = outbound_payments[id].status ]_vars

(***************************************************************************)
(* The channel close's claims (SpecClose).                                 *)
(***************************************************************************)
\* the payment map after a close: each Pending record Failed with its other
\* fields kept, every other record as it was
AfterClose(payments) ==
    [k \in DOMAIN payments |->
        IF payments[k].status = "Pending"
        THEN [payments[k] EXCEPT !.status = "Failed"]
        ELSE payments[k]]

OnlyMakerSwap(payment_hash, status) ==
    /\ DOMAIN maker_swaps' = DOMAIN maker_swaps
    /\ maker_swaps'[payment_hash].status = status
    /\ maker_swaps'[payment_hash].swap_info = maker_swaps[payment_hash].swap_info
    /\ \A h \in DOMAIN maker_swaps \ {payment_hash} : maker_swaps'[h] = maker_swaps[h]
    /\ UNCHANGED << taker_swaps, inbound_payments, outbound_payments >>
    /\ ~panicked'

\* only the outbound record of the id changed, if there is one: a missing
\* record (or a missing id) ends the handler in a panic with no map changed
OnlyOutbound(payment_id, record) ==
    /\ UNCHANGED << maker_swaps, taker_swaps, inbound_payments >>
    /\ IF payment_id # None /\ payment_id[1] \in DOMAIN outbound_payments
       THEN /\ outbound_payments' =
                    [outbound_payments EXCEPT ![payment_id[1]] = record]
            /\ ~panicked'
       ELSE /\ UNCHANGED outbound_payments
            /\ panicked'

\* C26: PaymentClaimed, PaymentSent and PaymentFailed update one ledger only.
\* If the payment hash is a maker swap, only that swap changes (Succeeded,
\* Succeeded, Failed) and the payment maps and the taker swaps are unchanged.
\* Otherwise both swap maps are unchanged and only the record of the payment
\* changes: the inbound record of the hash is upserted as Succeeded with the
\* preimage and secret of the purpose; the outbound record of the payment id
\* is set Succeeded with the preimage; the outbound record of the payment id
\* is set Failed.
C26_OneLedger ==
    [][ /\ \A ev \in ClaimsInFull :
            PaymentClaimed(ev) =>
                IF ev.payment_hash \in DOMAIN maker_swaps
                THEN OnlyMakerSwap(ev.payment_hash, "Succeeded")
                ELSE /\ UNCHANGED << maker_swaps, taker_swaps, outbound_payments >>
                     /\ inbound_payments' =
                            upsert_inbound_payment(St, ev.payment_hash, "Succeeded",
                                PurposePreimage(ev.purpose), PurposeSecret(ev.purpose),
                                Some(ev.amount_msat)).inbound_payments
                     /\ DOMAIN inbound_payments' = DOMAIN inbound_payments \cup {ev.payment_hash}
                     /\ inbound_payments'[ev.payment_hash].status = "Succeeded"
                     /\ \A h \in DOMAIN inbound_payments \ {ev.payment_hash} :
                            inbound_payments'[h] = inbound_payments[h]
                     /\ ~panicked'
        /\ \A ev \in PaymentSentEvents :
            PaymentSent(ev) =>
                IF ev.payment_hash \in DOMAIN maker_swaps
                THEN OnlyMakerSwap(ev.payment_hash, "Succeeded")
                ELSE OnlyOutbound(ev.payment_id,
                        [outbound_payments[ev.payment_id[1]] EXCEPT
                            !.status = "Succeeded",
                            !.preimage = Some(ev.payment_preimage)])
        /\ \A ev \in PaymentFailedEvents :
            PaymentFailed(ev) =>
                IF ev.payment_hash \in DOMAIN maker_swaps
                THEN OnlyMakerSwap(ev.payment_hash, "Failed")
                ELSE OnlyOutbound(Some(ev.payment_id),
                        [outbound_payments[ev.payment_id] EXCEPT
                            !.status = "Failed"]) ]_vars

\* the maker swap h1 was settled while a payment registered under the same
\* hash stayed Pending, and the payment h2 was settled with no swap involved
C26_Witness ==
    /\ "h1" \in DOMAIN maker_swaps
    /\ maker_swaps["h1"].status = "Succeeded"
    /\ "h1" \in DOMAIN taker_swaps
    /\ taker_swaps["h1"].status = "Waiting"
    /\ "h1" \in DOMAIN inbound_payments
    /\ inbound_payments["h1"].status = "Pending"
    /\ "h2" \in DOMAIN outbound_payments
    /\ outbound_payments["h2"].status = "Succeeded"
    /\ outbound_payments["h2"].preimage = Some("p1")
    /\ ~panicked

(***************************************************************************)
(* The swap lifecycle's claims (SpecSwap).                                 *)
(***************************************************************************)
SwapStatusOf(swaps, h) == IF h \in DOMAIN swaps THEN swaps[h].status ELSE "absent"

\* C6: a swap is set to Pending only when its status just before was
\* Waiting: a step that writes a Pending record (a new status or a new
\* initiated_at) starts from a Waiting record.
C6_PendingOnlyFromWaiting ==
    [][ \A h \in Hashes :
            ( /\ SwapStatusOf(taker_swaps', h) = "Pending"
              /\ h \in DOMAIN taker_swaps => taker_swaps'[h] # taker_swaps[h] )
                => SwapStatusOf(taker_swaps, h) = "Waiting" ]_vars

\* a step that handles an event of the swap's life
SwapEventStep ==
    \/ \E ev \in SwapHTLCs : HTLCIntercepted(ev)
    \/ \E ev \in PaymentForwardedEvents : PaymentForwarded(ev)

\* C7: swap terminal statuses are absorbing: an event leaves the status and
\* the completed_at of a Succeeded, Failed or Expired swap as they are, and
\* the record stays in its map.
C7_TerminalAbsorbing ==
    [][ SwapEventStep =>
        \A h \in Hashes :
            SwapStatusOf(taker_swaps, h) \in SwapTerminal
                => /\ h \in DOMAIN taker_swaps'
                   /\ taker_swaps'[h].status = taker_swaps[h].status
                   /\ taker_swaps'[h].completed_at = taker_swaps[h].completed_at ]_vars

\* the timestamps of the swap record fit its status
StampsFitStatus(swap) ==
    /\ swap.completed_at # None <=> swap.status \in SwapTerminal
    /\ swap.status = "Pending" => swap.initiated_at # None

\* the later record keeps the timestamps that are set in the earlier one
StampsKept(before, after) ==
    /\ before.initiated_at # None => after.initiated_at = before.initiated_at
    /\ before.completed_at # None => after.completed_at = before.completed_at

\* C40: the timestamps of a swap that was whitelisted as Waiting with both
\* timestamps unset follow its status: completed_at is set exactly when the
\* status is Succeeded, Failed or Expired, initiated_at is set whenever the
\* status is Pending, and an event never overwrites a timestamp that is set.
C40_TimestampsFollowStatus ==
    [][ /\ \A h \in DOMAIN taker_swaps' : StampsFitStatus(taker_swaps'[h])
        /\ SwapEventStep =>
            \A h \in DOMAIN taker_swaps :
                h \in DOMAIN taker_swaps' /\ StampsKept(taker_swaps[h], taker_swaps'[h]) ]_vars

\* C27: PaymentForwarded marks a taker swap Succeeded only if the payment
\* hash is that of a taker swap that is not yet in a terminal status; for
\* any other hash no swap changes; maker swaps and payment records are never
\* changed by the event.
C27_ForwardedSettlesActiveOnly ==
    [][ \A ev \in PaymentForwardedEvents :
            PaymentForwarded(ev) =>
                /\ UNCHANGED << maker_swaps, inbound_payments, outbound_payments >>
                /\ \/ UNCHANGED taker_swaps
                   \/ /\ ev.payment_hash \in DOMAIN taker_swaps
                      /\ taker_swaps[ev.payment_hash].status \notin SwapTerminal
                      /\ taker_swaps'[ev.payment_hash].status = "Succeeded" ]_vars

(***************************************************************************)
(* The colored output spender's claims (SpecSpend).                        *)
(***************************************************************************)
\* a step that is a call of spend_spendable_outputs on the batch d
SpendStep(d) ==
    /\ spend'.type = "Spend"
    /\ spend'.descriptors = d
    /\ \E o \in SweeperOutputs, c \in ConsignmentOrders(BatchAssets(d)), f \in Faults(d) :
            SpendSpendableOutputs(d, o, c, f)

\* a successful colored spend leaves its transaction in both caches, and an
\* entry of the persisted cache is never changed or removed
SuccessIsCached ==
    /\ \A d \in SweptBatches :
        (SpendStep(d) /\ spend'.result.variant = "Ok" /\ BatchAssets(d) # {})
            => /\ DescriptorsHash(d) \in DOMAIN fs_store'.output_spender_txes
               /\ fs_store'.output_spender_txes[DescriptorsHash(d)] = spend'.result.tx
               /\ DescriptorsHash(d) \in DOMAIN txes'
               /\ txes'[DescriptorsHash(d)] = spend'.result.tx
    /\ \A h \in DOMAIN fs_store.output_spender_txes :
        /\ h \in DOMAIN fs_store'.output_spender_txes
        /\ fs_store'.output_spender_txes[h] = fs_store.output_spender_txes[h]

\* the batch d was spent successfully before
Swept(d) == DescriptorsHash(d) \in DOMAIN fs_store.output_spender_txes

\* a call posts nothing, requests no address and leaves both caches alone
NothingIssued ==
    /\ posted' = posted
    /\ receive_count' = receive_count
    /\ signed' = signed
    /\ txes' = txes
    /\ fs_store' = fs_store

C3_ReplayReturnsEarlierTx ==
    /\ \A t1, t2 \in signed : t1.input = t2.input => t1 = t2
    /\ (spend.type = "Spend" /\ spend.result.variant = "Ok")
            => \A t \in signed : t.input = spend.descriptors => t = spend.result.tx
    /\ \A i, j \in DOMAIN posted :
            (/\ i # j
             /\ posted[i].contract_id = posted[j].contract_id)
                => posted[i].txid[2].input # posted[j].txid[2].input

\* the ways in which the posting of a consignment of the batch fails: the
\* posting task does not complete, or it completes and post_consignment
\* returns an error
PostFailures(d) ==
    { f \in Faults(d) : f.kind \in {"post_join_error", "post_error_ignored"} }

\* a step that is a call on the batch d which reaches the posting of the
\* consignments, where a post fails
FailedPostStep(d) ==
    /\ "txes" \notin poisoned
    /\ DescriptorsHash(d) \notin DOMAIN txes
    /\ \E o \in SweeperOutputs, c \in ConsignmentOrders(BatchAssets(d)), f \in PostFailures(d) :
            SpendSpendableOutputs(d, o, c, f)

\* C33: if the posting of a consignment fails, the call returns an error,
\* adds no entry to the in-memory or the persisted cache, and leaves the
\* consignments posted before in place.
C33_FailedPostIsError ==
    [][ \A d \in SweptBatches :
          FailedPostStep(d) =>
            /\ spend'.result = ResultErr
            /\ txes' = txes
            /\ fs_store' = fs_store
            /\ Len(posted') >= Len(posted)
            /\ SubSeq(posted', 1, Len(posted)) = posted ]_vars

\* C35: every HTLCIntercepted event whose handler runs to its end gets
\* exactly one command for its intercept id, a fail or a forward, whichever
\* path the handler takes: never none, never two, never a fail and a
\* forward.
C35_OneCommandPerIntercept ==
    [][ (event'.type = "HTLCIntercepted" /\ ~panicked')
            => /\ Len(commands') = 1
               /\ commands'[1].intercept_id = event'.intercept_id
               /\ commands'[1].cmd \in {"fail", "forward"} ]_vars

(***************************************************************************)
(* Failed writes of the ledger maps (SpecCallers).                         *)
(***************************************************************************)
\* the map m in memory is what a caller that takes its guard now would see,
\* and it is not what was persisted
Diverged(m) == Memory[m] # fs_store[m]

\* C34: a write of a ledger map that fails ends the mutation by a panic that
\* poisons the mutex of the map and persists nothing; while the mutex is
\* poisoned no operation takes its guard, changes the map or writes it; and
\* whenever a map in memory differs from what was persisted, either an
\* operation is still between its mutation and its write, holding the
\* guard, or the mutex is poisoned and the map out of every caller's reach.
C34_FailedWriteIsFatal ==
    [][ /\ \A t \in Threads :
            (WriteFails(t) /\ guard[MapOf(call[t].req)] = t)
                => /\ MapOf(call[t].req) \in poisoned'
                   /\ fs_store' = fs_store
                   /\ Memory' = Memory
        /\ \A m \in LedgerMaps :
            /\ (m \in poisoned /\ m \in poisoned')
                    => /\ Memory'[m] = Memory[m]
                       /\ fs_store'[m] = fs_store[m]
                       /\ guard'[m] = "none"
            /\ Diverged(m)' => (m \in poisoned' \/ guard'[m] # "none") ]_vars

\* a write of the maker swap map failed after a swap was added: the map in
\* memory holds a swap that was never persisted, its mutex is poisoned and
\* no caller is in an operation
C34_Witness ==
    /\ "maker_swaps" \in poisoned
    /\ Diverged("maker_swaps")
    /\ DOMAIN maker_swaps # DOMAIN fs_store.maker_swaps
    /\ \A t \in Threads : call[t] = Idle
    /\ \A m \in LedgerMaps : guard[m] = "none"

(***************************************************************************)
(* The order of the locks (SpecLocks).                                     *)
(***************************************************************************)
\* the task t asks for the guard of the mutex m
Wants(t, m) == AtStep(t, "lock") /\ call[t].script[call[t].pc].mutex = m

\* the task t waits for a guard that is not free
Blocked(t) == \E m \in LockNames : Wants(t, m) /\ guard[m] # "none"

\* C39: a task that asks for the guard of a ledger mutex holds no guard, of
\* that mutex or of another, and no task ever holds two; so a task that
\* waits for a guard waits for another task that is not waiting itself:
\* there is no deadlock.
C39_OneLockAtATime ==
    \A t \in Threads :
        /\ Cardinality(HeldBy(t)) <= 1
        /\ AtStep(t, "lock") => HeldBy(t) = {}
        /\ \A m \in LockNames :
                (Wants(t, m) /\ guard[m] # "none")
                    => /\ guard[m] # t
                       /\ ~Blocked(guard[m])

\* one task waits for the taker swap mutex, whose guard the HTLCIntercepted
\* handler of the other task holds for the whitelist lookup
C39_Witness ==
    /\ Wants("t1", "taker_swaps")
    /\ guard["taker_swaps"] = "t2"
    /\ call["t2"].stage = "locks"
    /\ call["t2"].script = htlc_intercepted_locks(TRUE)
    /\ call["t2"].pc = 2

(***************************************************************************)
(* The coloring of the spend (SpecColor).                                  *)
(***************************************************************************)
\* a step that is a call of spend_spendable_outputs on the batch d with the
\* outputs o
ColorStep(d, o) ==
    /\ spend'.type = "Spend"
    /\ spend'.descriptors = d
    /\ spend'.outputs = o
    /\ \E c \in ConsignmentOrders(BatchAssets(d)), f \in ColorFaults(d) :
            SpendSpendableOutputs(d, o, c, f)

\* the call built, signed and returned a new colored transaction
ColoredOk(s) ==
    /\ s.type = "Spend"
    /\ s.result.variant = "Ok"
    /\ ~s.from_cache
    /\ BatchAssets(s.descriptors) # {}

\* C32: a call that is not served from the cache takes the vanilla path
\* exactly when no descriptor of the batch has a transfer-info record with a
\* non-zero amount: then it requests no receive address, colors and signs
\* no transaction, posts no consignment and caches nothing, and what it
\* returns is the plain spend of the batch; when a descriptor carries asset
\* value, the transaction returned is the one colored transaction, which
\* spends the whole batch, plain descriptors included.
C32_VanillaIffNoAssetValue ==
    [][ \A d \in ColoredBatches, o \in CallerOutputs :
          (ColorStep(d, o) /\ ~spend'.from_cache) =>
            IF \A i \in DOMAIN d :
                 \/ d[i].txid \notin DOMAIN TransferInfoFiles
                 \/ TransferInfoFiles[d[i].txid].rgb_amount = 0
            THEN /\ NothingIssued
                 /\ spend'.result.variant \in {"Ok", "Err", "panic"}
                 /\ spend'.result.variant = "Ok" =>
                        spend'.result.tx =
                            [input |-> d, output |-> o, coloring |-> EmptyMap]
            ELSE spend'.result.variant = "Ok" =>
                    /\ spend'.result.tx.input = d
                    /\ spend'.result.tx.coloring # EmptyMap
                    /\ spend'.result.tx \in signed'
                    /\ signed' = signed \cup {spend'.result.tx}
                    /\ receive_count' > receive_count ]_vars

\* a batch whose only descriptor has a record with a zero amount was spent
\* on the vanilla path, after a batch of a plain and an asset output was
\* spent by one colored transaction
C32_Witness ==
    /\ spend.type = "Spend"
    /\ spend.descriptors = Batch(<< "t5" >>)
    /\ spend.result = ResultOk([ input |-> Batch(<< "t5" >>), output |-> << >>,
                                 coloring |-> EmptyMap ])
    /\ \E tx \in signed :
            /\ tx.input = Batch(<< "t1", "t2" >>)
            /\ DOMAIN tx.coloring = {"rgb1"}
    /\ \A tx \in signed : tx.input # Batch(<< "t5" >>)

\* the place in the batch of the first descriptor that carries the asset
FirstOccurrence(d, asset) ==
    CHOOSE i \in AssetBearing(d) :
        /\ read_rgb_transfer_info(d[i].txid).contract_id = asset
        /\ \A j \in AssetBearing(d) :
                read_rgb_transfer_info(d[j].txid).contract_id = asset => i <= j

\* the number of assets that occur in the batch before the asset does
OccurrenceRank(d, asset) ==
    Cardinality({ b \in BatchAssets(d) :
                    FirstOccurrence(d, b) < FirstOccurrence(d, asset) })

\* the descriptors of the batch that carry the asset, in the order of the batch
DescriptorsOf(d, asset) ==
    SelectSeq(d, LAMBDA outpoint :
        /\ outpoint.txid \in DOMAIN TransferInfoFiles
        /\ read_rgb_transfer_info(outpoint.txid).rgb_amount # 0
        /\ read_rgb_transfer_info(outpoint.txid).contract_id = asset)

\* C31: a call requests at most one receive address per distinct asset of
\* the batch; a colored spend that returns a new transaction requested
\* exactly one per asset and appended exactly one change output per asset,
\* the index recorded for an asset is the number of assets that occur
\* before it in the descriptor list (0, 1, 2, ...), and every descriptor of
\* the asset is put under that one index and that one recipient.
C31_OneOutputPerAsset ==
    [][ \A d \in ColoredBatches, o \in CallerOutputs :
          ColorStep(d, o) =>
            /\ receive_count' - receive_count <= Cardinality(BatchAssets(d))
            /\ ColoredOk(spend') =>
                LET tx == spend'.result.tx
                IN  /\ receive_count' = receive_count + Cardinality(BatchAssets(d))
                    /\ Len(tx.output) = Len(o) + Cardinality(BatchAssets(d))
                    /\ DOMAIN tx.coloring = BatchAssets(d)
                    /\ \A asset \in BatchAssets(d) :
                        LET rank == OccurrenceRank(d, asset)
                            recipient_id == receive_count + rank + 1
                        IN  /\ DOMAIN tx.coloring[asset].output_map = {rank}
                            /\ tx.coloring[asset].input_outpoints = DescriptorsOf(d, asset)
                            /\ tx.output[Len(o) + rank + 1].script_pubkey =
                                    << "recipient", recipient_id >>
                            /\ \A i \in DOMAIN posted' :
                                (/\ posted'[i].txid = Txid(tx)
                                 /\ posted'[i].contract_id = asset)
                                    => /\ posted'[i].vout = rank
                                       /\ posted'[i].recipient_id = recipient_id ]_vars

RECURSIVE RecordedAmount(_)
RecordedAmount(descriptors) ==
    IF descriptors = << >> THEN 0
    ELSE read_rgb_transfer_info(Head(descriptors).txid).rgb_amount
            + RecordedAmount(Tail(descriptors))

C31_Witness ==
    /\ ColoredOk(spend)
    /\ spend.descriptors = Batch(<< "t2", "t4", "t3" >>)
    /\ DOMAIN spend.result.tx.coloring["rgb1"].output_map = {0}
    /\ DOMAIN spend.result.tx.coloring["rgb2"].output_map = {1}
    /\ Len(spend.result.tx.coloring["rgb1"].input_outpoints) = 2
    /\ Len(spend.result.tx.output) = Len(spend.outputs) + 2
    /\ receive_count = 2

====
